---- MODULE Spec2Model ----
(***************************************************************************)
(* A model of the lurk proxy (boris-sinyapkin/lurk).                       *)
(*                                                                         *)
(* Spec        one SOCKS5 connection: the client, the endpoint and the     *)
(*             LurkSocks5Handler task that serves it, at the granularity   *)
(*             of the handler's suspension points (every .await).          *)
(* SpecServer  LurkServer::run: the accept loop, the task tracker, the     *)
(*             cancellation token and the per-connection tasks.            *)
(* SpecListener  accept and the peek that labels a connection.             *)
(* SpecTunnels the byte streams of concurrent tunnels.                     *)
(* SpecCodec   the SOCKS5 codec and the authenticator, call by call.       *)
(* SpecHttp    LurkHttpHandler::serve_request for one request.             *)
(* SpecStats   LurkServerStats written by run() and read by the health     *)
(*             endpoint on another thread.                                 *)
(* SpecFair, SpecServerFair add the fairness the runtime gives.            *)
(*                                                                         *)
(* Streams are sequences of bytes.  Decoders consume bytes exactly as the  *)
(* code's read_exact / read_u8 calls do; encoders produce the bytes the    *)
(* code's write_all receives.                                              *)
(***************************************************************************)
EXTENDS Integers, Sequences, FiniteSets, TLC

(***************************************************************************)
(* Bounds of the model.                                                    *)
(***************************************************************************)
\* Largest NMETHODS a client of the model sends.
MaxMethods == 2
\* Payload bytes each peer sends through the tunnel.
MaxData == 1
\* Connections the accept loop of SpecServer sees.
MaxConns == 2
\* Most bytes a peer of a tunnel sends in SpecTunnels.
MaxPayload == 2
\* Most times a function is called again on the same argument in SpecCodec.
MaxRuns == 2

(***************************************************************************)
(* Protocol constants (proto/socks5/mod.rs, mod consts).                   *)
(***************************************************************************)
SOCKS5_VERSION == 5

SOCKS5_AUTH_METHOD_NONE == 0
SOCKS5_AUTH_METHOD_GSSAPI == 1
SOCKS5_AUTH_METHOD_PASSWORD == 2
SOCKS5_AUTH_METHOD_NOT_ACCEPTABLE == 255

SOCKS5_CMD_CONNECT == 1
SOCKS5_CMD_BIND == 2
SOCKS5_CMD_UDP_ASSOCIATE == 3

SOCKS5_ADDR_TYPE_IPV4 == 1
SOCKS5_ADDR_TYPE_DOMAIN_NAME == 3
SOCKS5_ADDR_TYPE_IPV6 == 4

SOCKS5_REPLY_SUCCEEDED == 0
SOCKS5_REPLY_GENERAL_FAILURE == 1
SOCKS5_REPLY_CONNECTION_NOT_ALLOWED == 2
SOCKS5_REPLY_NETWORK_UNREACHABLE == 3
SOCKS5_REPLY_HOST_UNREACHABLE == 4
SOCKS5_REPLY_CONNECTION_REFUSED == 5
SOCKS5_REPLY_TTL_EXPIRED == 6
SOCKS5_REPLY_COMMAND_NOT_SUPPORTED == 7
SOCKS5_REPLY_ADDRESS_TYPE_NOT_SUPPORTED == 8

(***************************************************************************)
(* Errors.  An anyhow::Error is modelled by the concrete type it wraps     *)
(* (what downcast::<T>() succeeds on) and the variant or kind.             *)
(***************************************************************************)
NoErr == [type |-> "None", kind |-> "None"]
\* LurkError::<kind>
LurkErr(kind) == [type |-> "LurkError", kind |-> kind]
\* InvalidValue::<kind> handed to ensure! without the LurkError wrapper
InvalidValueErr(kind) == [type |-> "InvalidValue", kind |-> kind]
\* std::io::Error of the given ErrorKind
IoErr(kind) == [type |-> "io", kind |-> kind]

\* The io::ErrorKinds a failed TcpStream::connect produces in the model.
ConnectErrorKinds == {"ConnectionRefused", "ConnectionAborted", "TimedOut"}
\* The io::ErrorKind of a failed lookup_host (getaddrinfo failure).
LookupErrorKinds == {"Other"}

(***************************************************************************)
(* Addresses.  proto::socks5::Address is SocketAddress(V4 | V6) or         *)
(* DomainName(String, u16); host holds the octets or the name's bytes.     *)
(***************************************************************************)
NoAddress == [kind |-> "None", host |-> <<>>, port |-> 0]
SocketV4(ip, port) == [kind |-> "V4", host |-> ip, port |-> port]
DomainName(name, port) == [kind |-> "Domain", host |-> name, port |-> port]
SocketV6(ip, port) == [kind |-> "V6", host |-> ip, port |-> port]

\* Drop the first n elements of a sequence.
Drop(s, n) == SubSeq(s, n + 1, Len(s))

\* Mutant: the u16 is written little-endian.
U16ToLe(v) == << v % 256, (v \div 256) % 256 >>

\* u16 big-endian, as read_u16 / put_u16 do.
U16FromBe(hi, lo) == hi * 256 + lo
U16ToBe(v) == << (v \div 256) % 256, v % 256 >>

(***************************************************************************)
(* Results of a decoder run on the unread bytes buf of a stream whose      *)
(* writer has (eof) or has not closed: "pending" is a read that is still   *)
(* suspended, waiting for bytes.                                           *)
(***************************************************************************)
DecOk(val, rest) == [st |-> "ok", val |-> val, rest |-> rest, err |-> NoErr]
DecErr(err) == [st |-> "err", val |-> NoAddress, rest |-> <<>>, err |-> err]
DecPending == [st |-> "pending", val |-> NoAddress, rest |-> <<>>, err |-> NoErr]
\* read_exact of n bytes that are not all there: fails at end of stream,
\* suspends otherwise.
Short(eof) == IF eof THEN DecErr(IoErr("UnexpectedEof")) ELSE DecPending

\* String::from_utf8 on the bytes of the model's alphabet: ASCII bytes are
\* valid, the bytes 0xF8..0xFF occur in no valid UTF-8 sequence.
Utf8Valid(bytes) == \A i \in 1..Len(bytes) : bytes[i] < 128

\* LurkAuthMethod <-> SOCKS5 constant.
MethodByte(m) ==
    CASE m = "None" -> SOCKS5_AUTH_METHOD_NONE
      [] m = "GssAPI" -> SOCKS5_AUTH_METHOD_GSSAPI
      [] m = "Password" -> SOCKS5_AUTH_METHOD_PASSWORD

IsMethodByte(b) ==
    b \in {SOCKS5_AUTH_METHOD_NONE, SOCKS5_AUTH_METHOD_GSSAPI, SOCKS5_AUTH_METHOD_PASSWORD}

AuthMethodTryFrom(b) ==
    CASE b = SOCKS5_AUTH_METHOD_NONE -> "None"
      [] b = SOCKS5_AUTH_METHOD_GSSAPI -> "GssAPI"
      [] b = SOCKS5_AUTH_METHOD_PASSWORD -> "Password"
      [] OTHER -> "Invalid"

\* Command::try_from(u8)
CommandTryFrom(b) ==
    CASE b = SOCKS5_CMD_BIND -> "Bind"
      [] b = SOCKS5_CMD_CONNECT -> "Connect"
      [] b = SOCKS5_CMD_UDP_ASSOCIATE -> "UdpAssociate"
      [] OTHER -> "Invalid"

(***************************************************************************)
(* SOCKS5 codec.                                                           *)
(***************************************************************************)
\* Mutant: unknown method bytes are dropped instead of failing the read.
HandshakeRequest_read_from_drops_unknown(buf, eof) ==
    IF Len(buf) < 2 THEN Short(eof)
    ELSE IF buf[1] # SOCKS5_VERSION THEN DecErr(InvalidValueErr("ProtocolVersion"))
    ELSE IF Len(buf) < 2 + buf[2] THEN Short(eof)
    ELSE DecOk({AuthMethodTryFrom(buf[2 + i]) : i \in 1..buf[2]} \ {"Invalid"},
               Drop(buf, 2 + buf[2]))

\* HandshakeRequest::read_from: read_exact of the 2-byte header, the version
\* check, then read_exact of NMETHODS bytes, each converted to an auth
\* method and collected into a HashSet.
HandshakeRequest_read_from(buf, eof) ==
    IF Len(buf) < 2 THEN Short(eof)
    ELSE LET version == buf[1]
             nmethods == buf[2]
         IN IF version # SOCKS5_VERSION
              THEN DecErr(InvalidValueErr("ProtocolVersion"))
            ELSE IF nmethods = 0 THEN DecOk({}, Drop(buf, 2))
            ELSE IF Len(buf) < 2 + nmethods THEN Short(eof)
            ELSE LET methods == SubSeq(buf, 3, 2 + nmethods)
                 IN IF \E i \in 1..nmethods : AuthMethodTryFrom(methods[i]) = "Invalid"
                      THEN DecErr(LurkErr("DataError:AuthMethod"))
                      ELSE DecOk({AuthMethodTryFrom(methods[i]) : i \in 1..nmethods},
                                 Drop(buf, 2 + nmethods))

\* Address::read_ipv4: read_u32 and read_u16 after the type byte.
Address_read_ipv4(buf, eof) ==
    IF Len(buf) < 6 THEN Short(eof)
    ELSE DecOk(SocketV4(SubSeq(buf, 1, 4), U16FromBe(buf[5], buf[6])), Drop(buf, 6))

\* Address::read_ipv6: refused without reading.
Address_read_ipv6(buf, eof) == DecErr(LurkErr("Unsupported:IPv6Address"))

\* Address::read_domain_name: length byte, name, UTF-8 check, port.
Address_read_domain_name(buf, eof) ==
    IF Len(buf) < 1 THEN Short(eof)
    ELSE LET len == buf[1]
         IN IF Len(buf) < 1 + len THEN Short(eof)
            ELSE LET name == SubSeq(buf, 2, 1 + len)
                 IN IF ~Utf8Valid(name) THEN DecErr(LurkErr("DomainNameDecodingFailed"))
                    ELSE IF Len(buf) < 1 + len + 2 THEN Short(eof)
                    ELSE DecOk(DomainName(name, U16FromBe(buf[2 + len], buf[3 + len])),
                               Drop(buf, 3 + len))

\* Address::read_from: the type byte selects the form.
Address_read_from(buf, eof) ==
    IF Len(buf) < 1 THEN Short(eof)
    ELSE LET address_type == buf[1]
             rest == Drop(buf, 1)
         IN CASE address_type = SOCKS5_ADDR_TYPE_IPV4 -> Address_read_ipv4(rest, eof)
              [] address_type = SOCKS5_ADDR_TYPE_IPV6 -> Address_read_ipv6(rest, eof)
              [] address_type = SOCKS5_ADDR_TYPE_DOMAIN_NAME -> Address_read_domain_name(rest, eof)
              [] OTHER -> DecErr(LurkErr("DataError:AddressType"))

NoRequest == [command |-> "None", endpoint_address |-> NoAddress]

\* RelayRequest::read_from: read_exact of VER CMD RSV, the version check, the
\* reserved check, the command conversion, then the address.
RelayRequest_read_from(buf, eof) ==
    IF Len(buf) < 3 THEN Short(eof)
    ELSE LET version == buf[1]
             cmd == buf[2]
             reserved == buf[3]
         IN IF version # SOCKS5_VERSION THEN DecErr(InvalidValueErr("ProtocolVersion"))
            ELSE IF reserved # 0 THEN DecErr(InvalidValueErr("ReservedValue"))
            ELSE IF CommandTryFrom(cmd) = "Invalid"
              THEN DecErr(LurkErr("DataError:SocksCommand"))
            ELSE LET a == Address_read_from(Drop(buf, 3), eof)
                 IN IF a.st = "ok"
                      THEN DecOk([command |-> CommandTryFrom(cmd),
                                  endpoint_address |-> a.val], a.rest)
                      ELSE a

\* ReplyStatus::as_u8
ReplyStatus_as_u8(status) ==
    CASE status = "Succeeded" -> SOCKS5_REPLY_SUCCEEDED
      [] status = "GeneralFailure" -> SOCKS5_REPLY_GENERAL_FAILURE
      [] status = "ConnectionNotAllowed" -> SOCKS5_REPLY_CONNECTION_NOT_ALLOWED
      [] status = "NetworkUnreachable" -> SOCKS5_REPLY_NETWORK_UNREACHABLE
      [] status = "HostUnreachable" -> SOCKS5_REPLY_HOST_UNREACHABLE
      [] status = "ConnectionRefused" -> SOCKS5_REPLY_CONNECTION_REFUSED
      [] status = "TtlExpired" -> SOCKS5_REPLY_TTL_EXPIRED
      [] status = "CommandNotSupported" -> SOCKS5_REPLY_COMMAND_NOT_SUPPORTED
      [] status = "AddressTypeNotSupported" -> SOCKS5_REPLY_ADDRESS_TYPE_NOT_SUPPORTED

\* impl From<LurkError> for ReplyStatus
ReplyStatus_from_LurkError(kind) ==
    CASE kind = "Unsupported:Socks5Command" -> "CommandNotSupported"
      [] kind = "Unsupported:IPv6Address" -> "AddressTypeNotSupported"
      [] kind = "NoAcceptableAuthMethod" -> "ConnectionNotAllowed"
      [] kind = "UnresolvedDomainName" -> "HostUnreachable"
      [] OTHER -> "GeneralFailure"

\* Mutant: only LurkError is looked at, I/O errors are not told apart.
ReplyStatus_from_LurkError_only(err) ==
    IF err.type = "LurkError" THEN ReplyStatus_from_LurkError(err.kind) ELSE "GeneralFailure"

\* impl From<anyhow::Error> for ReplyStatus: downcast to LurkError, then to
\* std::io::Error, else GeneralFailure.
ReplyStatus_from(err) ==
    IF err.type = "LurkError" THEN ReplyStatus_from_LurkError(err.kind)
    ELSE IF err.type = "io"
      THEN CASE err.kind = "ConnectionRefused" -> "ConnectionRefused"
             [] err.kind = "ConnectionAborted" -> "HostUnreachable"
             [] OTHER -> "GeneralFailure"
    ELSE "GeneralFailure"

\* Address::write_to: only the IPv4 form is written (write_ipv6 and
\* write_domain_name are todo!()).
Address_write_to(addr) ==
    IF addr.kind = "V4"
      THEN [ok |-> TRUE,
            bytes |-> <<SOCKS5_ADDR_TYPE_IPV4>> \o addr.host \o U16ToBe(addr.port)]
      ELSE [ok |-> FALSE, bytes |-> <<>>]

\* HandshakeResponse::write_to: VER METHOD.
HandshakeResponse_bytes(method) == <<SOCKS5_VERSION, method>>

\* Mutant: with_no_acceptable_method() stores the None method's byte.
HandshakeResponse_method_accepts(selected) ==
    IF selected = "NoMethod" THEN SOCKS5_AUTH_METHOD_NONE ELSE MethodByte(selected)

\* HandshakeResponseBuilder: with_auth_method(m) stores m as u8,
\* with_no_acceptable_method() stores 0xFF.
HandshakeResponse_method(selected) ==
    IF selected = "NoMethod" THEN SOCKS5_AUTH_METHOD_NOT_ACCEPTABLE ELSE MethodByte(selected)

\* RelayResponse::write_to: VER REP RSV then the bound address.
RelayResponse_bytes(status, bound_addr) ==
    <<SOCKS5_VERSION, ReplyStatus_as_u8(status), 0>> \o Address_write_to(bound_addr).bytes

(***************************************************************************)
(* State.                                                                  *)
(***************************************************************************)
VARIABLES
    \* -- one SOCKS5 connection (Spec) --
    local_addr,     \* LurkTcpConnection.local_addr
    inbound,        \* bytes the client has sent and the proxy has not read
    clientEof,      \* the client has closed its sending side
    clientPc,       \* messages the client has sent: 0 none, 1 handshake, 2 relay
    clientSent,     \* payload bytes the client has sent after its relay message
    toClient,       \* bytes the proxy has written to the inbound stream
    clientWrShut,   \* the proxy has shut down its writing side to the client
    fromEndpoint,   \* bytes the endpoint has sent and the proxy has not read
    endpointEof,    \* the endpoint has closed its sending side
    endpointSent,   \* payload bytes the endpoint has sent
    toEndpoint,     \* bytes the proxy has written to the outbound stream
    endpointWrShut, \* the proxy has shut down its writing side to the endpoint
    pc,             \* the suspension point the handler's future is at
    selected,       \* the method select_auth_method returned
    request,        \* the RelayRequest read
    pendingErr,     \* the error on_relay_request_handling_error was called with
    resolved,       \* the socket address the endpoint resolved to
    outbound,       \* the outbound TcpStream: "none", "open", "dropped"
    l2r,            \* tunnel direction client -> endpoint
    r2l,            \* tunnel direction endpoint -> client
    result,         \* what handle() returned
    log,            \* history: the handler's I/O operations in order
    \* -- the server (SpecServer) --
    runPc,          \* where LurkServer::run is
    trackerClosed,  \* TaskTracker::close was called
    tokenCancelled, \* CancellationToken::cancel was called
    tasks,          \* per connection: the state of the task spawned for it
    labels,         \* per connection: the label it was accepted with
    accepted,       \* streams the listener's incoming.next() has yielded so far
    started,        \* LurkServerStats: on_server_started was called
    handlers,       \* per connection: the handler created for it
    spawned,        \* per connection: the tasks spawned on the tracker for it
    detached,       \* per connection: the task its HTTP handler started with tokio::spawn
    acceptErr,      \* the error the last accept() of the loop returned, until the retry
    \* -- LurkTcpListener::accept on one stream (SpecListener) --
    acceptPc,       \* where accept() is with the stream
    peeked,         \* the byte peek() stored in buff
    connLabel,      \* the label from_tcp_stream returned
    acceptRes,      \* what accept() returned
    \* -- N tunnels relaying at once (SpecTunnels) --
    tunnels,        \* per connection and direction: bytes sent, unread, delivered
    \* -- one call of a function of the codec (SpecCodec) --
    call,           \* the function called, its argument and its result
    \* -- one request served by LurkHttpHandler (SpecHttp) --
    http,           \* the request, the outbound connection, the response
    \* -- the server stats and the health endpoint that reads them (SpecStats) --
    stats           \* the two atomics, what the endpoint's thread sees of them,
                    \* the clock, and the answer being built

connVars == <<local_addr, inbound, clientEof, clientPc, clientSent, toClient, clientWrShut,
              fromEndpoint, endpointEof, endpointSent, toEndpoint, endpointWrShut,
              pc, selected, request, pendingErr, resolved, outbound, l2r, r2l, result, log>>
loopVars == <<runPc, trackerClosed, tokenCancelled, tasks, labels, accepted, started,
              handlers, spawned, detached, acceptErr>>
listenerVars == <<acceptPc, peeked, connLabel, acceptRes>>
otherVars == <<tunnels, call, http, stats>>
serverVars == <<loopVars, listenerVars, otherVars>>
vars == <<connVars, serverVars>>

clientVars == <<inbound, clientEof, clientPc, clientSent>>
endpointVars == <<fromEndpoint, endpointEof, endpointSent>>
tunnelVars == <<l2r, r2l, clientWrShut, endpointWrShut, toEndpoint>>

(***************************************************************************)
(* What the client and the endpoint of the model send.                     *)
(***************************************************************************)
Versions == {4, SOCKS5_VERSION}
MethodBytes == {SOCKS5_AUTH_METHOD_NONE, SOCKS5_AUTH_METHOD_GSSAPI,
                SOCKS5_AUTH_METHOD_PASSWORD, SOCKS5_AUTH_METHOD_NOT_ACCEPTABLE}
CommandBytes == {SOCKS5_CMD_CONNECT, SOCKS5_CMD_BIND, SOCKS5_CMD_UDP_ASSOCIATE, 9}
ReservedBytes == {0, 1}
PayloadBytes == {65, 66}

\* ATYP ADDR PORT forms: two IPv4 addresses, a domain name, a domain name
\* that is not UTF-8, an IPv6 address, an unknown address type.
AddressForms ==
    { <<SOCKS5_ADDR_TYPE_IPV4, 127, 0, 0, 1, 0, 11>>,
      <<SOCKS5_ADDR_TYPE_IPV4, 127, 0, 0, 1, 10, 10>>,
      <<SOCKS5_ADDR_TYPE_DOMAIN_NAME, 1, 97, 0, 80>>,
      <<SOCKS5_ADDR_TYPE_DOMAIN_NAME, 1, 255, 0, 80>>,
      <<SOCKS5_ADDR_TYPE_IPV6, 0, 0, 0, 0, 0, 0, 0, 0, 0, 0, 0, 0, 0, 0, 0, 1, 0, 80>>,
      <<9, 0, 80>> }

HandshakeMsgs ==
    UNION { { <<ver, n>> \o m : m \in [1..n -> MethodBytes] } :
            <<ver, n>> \in Versions \X (0..MaxMethods) }

RelayMsgs ==
    { <<ver, cmd, rsv>> \o a :
      <<ver, cmd, rsv, a>> \in Versions \X CommandBytes \X ReservedBytes \X AddressForms }

\* A message or the beginning of one (a client may stop in the middle).
Prefixes(msgs) == { SubSeq(m, 1, k) : <<m, k>> \in { <<m, k>> \in msgs \X (1..19) : k <= Len(m) } }

LocalAddrs == { SocketV4(<<127, 0, 0, 1>>, 1080), SocketV4(<<10, 0, 0, 7>>, 32000) }
\* What a successful lookup_host of the model's domain name yields first.
LookupResult == SocketV4(<<93, 184, 216, 34>>, 80)

(***************************************************************************)
(* History records.                                                        *)
(***************************************************************************)
Ev(ev, what, ok, addr) == [ev |-> ev, what |-> what, ok |-> ok, addr |-> addr]
\* The events of kind ev, in order.
Events(ev) == SelectSeq(log, LAMBDA e : e.ev = ev)
Count(ev) == Len(Events(ev))

ResOk == [st |-> "Ok", err |-> NoErr]
ResErr(err) == [st |-> "Err", err |-> err]
ResNone == [st |-> "Running", err |-> NoErr]
ResCancelled == [st |-> "Cancelled", err |-> NoErr]

(***************************************************************************)
(* Authenticator (auth.rs).                                                *)
(***************************************************************************)
SUPPORTED_AUTH_METHODS == {"None"}

\* Mutant: any method of the peer is selected.
select_auth_method_any_peer(peer_methods) ==
    IF peer_methods = {} THEN {"NoMethod"} ELSE peer_methods

\* LurkAuthenticator::select_auth_method: the values nth(0) of the
\* intersection can take ("NoMethod" is Option::None).
select_auth_method(peer_methods) ==
    LET common_methods == SUPPORTED_AUTH_METHODS \cap peer_methods
    IN IF common_methods = {} THEN {"NoMethod"} ELSE common_methods

\* LurkAuthenticator::authenticate_connection: Ok for the None method only.
authenticate_connection(method) ==
    CASE method = "None" -> ResOk
      [] method = "NoMethod" -> ResErr([type |-> "anyhow", kind |-> "MethodNotSelected"])
      [] OTHER -> ResErr(LurkErr("UnsupportedAuthMethod"))

(***************************************************************************)
(* LurkSocks5Handler (server/handlers/socks5.rs).                          *)
(***************************************************************************)
\* The error a failed write_all on the inbound stream returns.
WriteErr == IoErr("BrokenPipe")

\* The handler's future completes with res: handle() returns and the
\* connection (and an open outbound stream) is dropped.
Return(res) ==
    /\ pc' = "Done"
    /\ result' = res
    /\ outbound' = IF outbound = "open" THEN "dropped" ELSE outbound

\* Where the handler goes next, and what it returns when that is "Done".
Goto(p) == [pc |-> p, res |-> ResNone]
Finish(res) == [pc |-> "Done", res |-> res]

\* Mutant: the None arm of the match does not bail out.
process_handshake_next_no_bail(method, ok) ==
    IF ~ok THEN Finish(ResErr(WriteErr)) ELSE Goto("ReadRelay")

\* process_handshake after the response was written (ok) or the write
\* failed: the write's error, NoAcceptableAuthenticationMethod when no method
\* was selected, else what authenticate_connection returns; on Ok handle()
\* goes on to process_relay_request.
process_handshake_next(method, ok) ==
    IF ~ok THEN Finish(ResErr(WriteErr))
    ELSE IF method = "NoMethod"
      THEN Finish(ResErr(LurkErr("NoAcceptableAuthenticationMethod")))
    ELSE IF authenticate_connection(method).st = "Ok" THEN Goto("ReadRelay")
    ELSE Finish(authenticate_connection(method))

\* The handler moves to next.pc; when that is "Done" its future completes.
Step(next) ==
    IF next.pc = "Done" THEN Return(next.res)
    ELSE pc' = next.pc /\ UNCHANGED <<result, outbound>>

\* Mutant: a request that cannot be decoded is answered like one that
\* offers no acceptable method.
after_handshake_read_answers(d) == Goto("WriteHandshake")

\* HandshakeRequest::read_from(...).await?: an error of the decoder is
\* returned from process_handshake, and so from handle(), at once.
after_handshake_read(d) ==
    IF d.st = "err" THEN Finish(ResErr(d.err)) ELSE Goto("WriteHandshake")

\* process_handshake, up to the write of the response: the request is read
\* and decoded (an error is returned with ?), a method is selected.
process_handshake_read ==
    /\ pc = "ReadHandshake"
    /\ LET d == HandshakeRequest_read_from(inbound, clientEof)
       IN /\ d.st # "pending"
          /\ log' = Append(log, Ev("ReadHandshakeRequest", d.err.kind, d.st = "ok", NoAddress))
          /\ Step(after_handshake_read(d))
          /\ IF d.st = "err"
               THEN UNCHANGED <<inbound, selected>>
               ELSE /\ inbound' = d.rest
                    /\ \E m \in select_auth_method(d.val) : selected' = m
    /\ UNCHANGED <<local_addr, clientEof, clientPc, clientSent, toClient, endpointVars,
                   tunnelVars, request, pendingErr, resolved, serverVars>>

\* process_handshake, the write of the response and what follows it: on
\* success of the whole handshake handle() goes on to process_relay_request.
process_handshake_write ==
    /\ pc = "WriteHandshake"
    /\ \E ok \in BOOLEAN :
         LET method == HandshakeResponse_method(selected)
         IN /\ log' = Append(log, Ev("WriteHandshakeResponse", selected, ok, NoAddress))
            /\ toClient' = IF ok THEN toClient \o HandshakeResponse_bytes(method) ELSE toClient
            /\ Step(process_handshake_next(selected, ok))
    /\ UNCHANGED <<local_addr, clientVars, endpointVars, tunnelVars, selected, request,
                   pendingErr, resolved, serverVars>>

\* Mutant: only UdpAssociate is refused, Bind is handled as Connect.
command_dispatch_bind_as_connect(req) ==
    IF req.command = "UdpAssociate"
      THEN [pc |-> "WriteErrReply", err |-> LurkErr("Unsupported:Socks5Command")]
    ELSE IF req.endpoint_address.kind = "Domain"
      THEN [pc |-> "Resolve", err |-> NoErr]
      ELSE [pc |-> "Connect", err |-> NoErr]

\* process_relay_request after the request was read: where the handler goes
\* for the command, and the error it reports for an unsupported one.
\* (LurkError::UnsupportedSocksCommand, Unsupported::Socks5Command in the
\* reply-status mapping.)
command_dispatch(req) ==
    IF req.command # "Connect"
      THEN [pc |-> "WriteErrReply", err |-> LurkErr("Unsupported:Socks5Command")]
    ELSE IF req.endpoint_address.kind = "Domain"
      THEN [pc |-> "Resolve", err |-> NoErr]
      ELSE [pc |-> "Connect", err |-> NoErr]

\* Mutant: the Err arm returns without calling
\* on_relay_request_handling_error.
after_establish_no_reply(err) ==
    IF err = NoErr THEN [pc |-> "WriteReply", err |-> NoErr]
    ELSE [pc |-> "Done", err |-> err]

\* process_relay_request, the match on establish_tcp_connection's result:
\* Ok goes on to the Succeeded response, Err(err) to
\* on_relay_request_handling_error(err).
after_establish(err) ==
    IF err = NoErr THEN [pc |-> "WriteReply", err |-> NoErr]
    ELSE [pc |-> "WriteErrReply", err |-> err]

\* process_relay_request, up to the first suspension after the read: a
\* request that cannot be decoded is returned with ?.
process_relay_request_read ==
    /\ pc = "ReadRelay"
    /\ LET d == RelayRequest_read_from(inbound, clientEof)
       IN /\ d.st # "pending"
          /\ IF d.st = "err"
               THEN /\ log' = Append(log, Ev("ReadRelayRequest", d.err.kind, FALSE, NoAddress))
                    /\ Return(ResErr(d.err))
                    /\ UNCHANGED <<inbound, request, pendingErr, resolved>>
               ELSE /\ log' = Append(log, Ev("ReadRelayRequest", d.val.command, TRUE,
                                             d.val.endpoint_address))
                    /\ inbound' = d.rest
                    /\ request' = d.val
                    /\ pc' = command_dispatch(d.val).pc
                    /\ pendingErr' = command_dispatch(d.val).err
                    /\ resolved' = IF d.val.endpoint_address.kind = "V4"
                                     THEN d.val.endpoint_address ELSE resolved
                    /\ UNCHANGED <<result, outbound>>
    /\ UNCHANGED <<local_addr, clientEof, clientPc, clientSent, toClient, endpointVars,
                   tunnelVars, selected, serverVars>>

\* Address::to_socket_addr of a domain name: what the lookup's outcome
\* becomes ("ok" an address, "empty" no address, "err" a failed lookup).
to_socket_addr_error(outcome, kind) ==
    CASE outcome = "ok" -> NoErr
      [] outcome = "empty" -> LurkErr("UnresolvedDomainName")
      [] outcome = "err" -> IoErr(kind)

\* establish_tcp_connection_with_opts, the resolution of a domain name.
resolve_endpoint ==
    /\ pc = "Resolve"
    /\ \E outcome \in {"ok", "empty", "err"}, kind \in LookupErrorKinds :
         LET err == to_socket_addr_error(outcome, kind)
         IN /\ log' = Append(log, Ev("Lookup", outcome, outcome = "ok", request.endpoint_address))
            /\ IF err = NoErr
                 THEN /\ resolved' = LookupResult
                      /\ pc' = "Connect"
                      /\ UNCHANGED pendingErr
                 ELSE /\ pendingErr' = after_establish(err).err
                      /\ pc' = after_establish(err).pc
                      /\ UNCHANGED resolved
    /\ UNCHANGED <<local_addr, clientVars, toClient, endpointVars, tunnelVars, selected,
                   request, outbound, result, serverVars>>

\* establish_tcp_connection_with_opts, TcpStream::connect and, on success,
\* tcp_opts.apply_to (the keep-alive); a failure of either is returned.
connect_endpoint ==
    /\ pc = "Connect"
    /\ \/ \E kind \in ConnectErrorKinds :
            /\ log' = Append(log, Ev("Connect", kind, FALSE, resolved))
            /\ pendingErr' = after_establish(IoErr(kind)).err
            /\ pc' = after_establish(IoErr(kind)).pc
            /\ UNCHANGED outbound
       \/ \E ka \in BOOLEAN :
            /\ log' = log \o << Ev("Connect", "ok", TRUE, resolved),
                                Ev("KeepAlive", "300/60/5", ka, resolved) >>
            /\ outbound' = IF ka THEN "open" ELSE "dropped"
            /\ LET err == IF ka THEN NoErr ELSE IoErr("Other")
               IN /\ pendingErr' = after_establish(err).err
                  /\ pc' = after_establish(err).pc
    /\ UNCHANGED <<local_addr, clientVars, toClient, endpointVars, tunnelVars, selected,
                   request, resolved, result, serverVars>>

\* Mutant: a failed write of the Succeeded response is reported to the
\* client through on_relay_request_handling_error.
after_success_reply_reports_failure(ok) ==
    IF ok THEN Goto("Tunnel") ELSE Goto("WriteErrReply")

\* Mutant: the result of the write is not looked at.
after_success_reply_unchecked(ok) == Goto("Tunnel")

\* What process_relay_request does after the write of the Succeeded
\* response: it goes on to the tunnel, or returns the write's error with ?.
after_success_reply(ok) == IF ok THEN Goto("Tunnel") ELSE Finish(ResErr(WriteErr))

\* process_relay_request, the Ok arm of establish_tcp_connection: the
\* Succeeded response bound to the connection's local address is written.
write_success_reply ==
    /\ pc = "WriteReply"
    /\ \E ok \in BOOLEAN :
         LET next == after_success_reply(ok)
         IN /\ log' = Append(log, Ev("WriteRelayResponse", "Succeeded", ok, local_addr))
            /\ toClient' = IF ok THEN toClient \o RelayResponse_bytes("Succeeded", local_addr)
                           ELSE toClient
            /\ Step(next)
            /\ l2r' = IF next.pc = "Tunnel" THEN "Running" ELSE l2r
            /\ r2l' = IF next.pc = "Tunnel" THEN "Running" ELSE r2l
    /\ UNCHANGED <<local_addr, clientVars, endpointVars, clientWrShut, endpointWrShut,
                   toEndpoint, selected, request, pendingErr, resolved, serverVars>>

\* Mutant: process_relay_request does not return after the error response.
after_error_reply_falls_through(ok) ==
    IF ok THEN Goto("Connect") ELSE Finish(ResErr(WriteErr))

\* What on_relay_request_handling_error returns, and process_relay_request
\* with it: the result of the write.
after_error_reply(ok) == IF ok THEN Finish(ResOk) ELSE Finish(ResErr(WriteErr))

\* on_relay_request_handling_error: a response with the status mapped from
\* the error and the connection's local address is written; the handler
\* returns.
on_relay_request_handling_error ==
    /\ pc = "WriteErrReply"
    /\ \E ok \in BOOLEAN :
         LET status == ReplyStatus_from(pendingErr)
         IN /\ log' = Append(log, Ev("WriteRelayResponse", status, ok, local_addr))
            /\ toClient' = IF ok THEN toClient \o RelayResponse_bytes(status, local_addr)
                           ELSE toClient
            /\ Step(after_error_reply(ok))
    /\ UNCHANGED <<local_addr, clientVars, endpointVars, tunnelVars, selected, request,
                   pendingErr, resolved, serverVars>>

(***************************************************************************)
(* LurkTunnel::run (io/tunnel.rs): copy_bidirectional(l2r, r2l).  Each     *)
(* direction is Running, then ShuttingDown once its reader is at end of    *)
(* stream, then Done once the other stream's writing side is shut down.    *)
(***************************************************************************)
tunnel_copy_l2r ==
    /\ pc = "Tunnel" /\ l2r = "Running" /\ inbound # <<>>
    /\ inbound' = Tail(inbound)
    /\ toEndpoint' = Append(toEndpoint, Head(inbound))
    /\ log' = Append(log, Ev("CopyL2R", "byte", TRUE, NoAddress))
    /\ UNCHANGED <<local_addr, clientEof, clientPc, clientSent, toClient, endpointVars,
                   l2r, r2l, clientWrShut, endpointWrShut, pc, selected, request,
                   pendingErr, resolved, outbound, result, serverVars>>

tunnel_copy_r2l ==
    /\ pc = "Tunnel" /\ r2l = "Running" /\ fromEndpoint # <<>>
    /\ fromEndpoint' = Tail(fromEndpoint)
    /\ toClient' = Append(toClient, Head(fromEndpoint))
    /\ log' = Append(log, Ev("CopyR2L", "byte", TRUE, NoAddress))
    /\ UNCHANGED <<local_addr, clientVars, endpointEof, endpointSent, tunnelVars, pc,
                   selected, request, pendingErr, resolved, outbound, result, serverVars>>

tunnel_eof_l2r ==
    /\ pc = "Tunnel" /\ l2r = "Running" /\ inbound = <<>> /\ clientEof
    /\ l2r' = "ShuttingDown"
    /\ UNCHANGED <<local_addr, clientVars, toClient, endpointVars, r2l, clientWrShut,
                   endpointWrShut, toEndpoint, pc, selected, request, pendingErr,
                   resolved, outbound, result, log, serverVars>>

tunnel_eof_r2l ==
    /\ pc = "Tunnel" /\ r2l = "Running" /\ fromEndpoint = <<>> /\ endpointEof
    /\ r2l' = "ShuttingDown"
    /\ UNCHANGED <<local_addr, clientVars, toClient, endpointVars, l2r, clientWrShut,
                   endpointWrShut, toEndpoint, pc, selected, request, pendingErr,
                   resolved, outbound, result, log, serverVars>>

tunnel_shutdown_l2r ==
    /\ pc = "Tunnel" /\ l2r = "ShuttingDown"
    /\ endpointWrShut' = TRUE
    /\ l2r' = "Done"
    /\ UNCHANGED <<local_addr, clientVars, toClient, endpointVars, r2l, clientWrShut,
                   toEndpoint, pc, selected, request, pendingErr, resolved, outbound,
                   result, log, serverVars>>

tunnel_shutdown_r2l ==
    /\ pc = "Tunnel" /\ r2l = "ShuttingDown"
    /\ clientWrShut' = TRUE
    /\ r2l' = "Done"
    /\ UNCHANGED <<local_addr, clientVars, toClient, endpointVars, l2r, endpointWrShut,
                   toEndpoint, pc, selected, request, pendingErr, resolved, outbound,
                   result, log, serverVars>>

\* Mutant: the copy is ready as soon as one direction is done.
copy_bidirectional_ready_either(a_to_b, b_to_a) == a_to_b = "Done" \/ b_to_a = "Done"

\* copy_bidirectional is Ready(Ok) once both transfers are Done.
copy_bidirectional_ready(a_to_b, b_to_a) == a_to_b = "Done" /\ b_to_a = "Done"

\* Mutant: an error of the tunnel is the handler's error.
after_tunnel_run_propagates(outcome) ==
    IF outcome = "error" THEN Finish(ResErr(IoErr("Other"))) ELSE Finish(ResOk)

\* The match on tunnel.run(): both arms log, Ok(()) follows either.
after_tunnel_run(outcome) == Finish(ResOk)

\* tunnel.run() has returned: Ok once both directions are done, Err on an
\* I/O error of either direction.  process_relay_request logs either outcome
\* and returns Ok(()).
tunnel_finished ==
    /\ pc = "Tunnel"
    /\ \/ /\ copy_bidirectional_ready(l2r, r2l)
          /\ log' = Append(log, Ev("TunnelClosed", "ok", TRUE, NoAddress))
          /\ Step(after_tunnel_run("ok"))
       \/ /\ log' = Append(log, Ev("TunnelClosed", "error", FALSE, NoAddress))
          /\ Step(after_tunnel_run("error"))
    /\ UNCHANGED <<local_addr, clientVars, toClient, endpointVars, tunnelVars, selected,
                   request, pendingErr, resolved, serverVars>>

\* The task's select! takes the token.cancelled() arm: the handler's future
\* is dropped at the suspension point it is at.
handler_cancelled ==
    /\ pc \notin {"Done", "Cancelled"}
    /\ pc' = "Cancelled"
    /\ result' = ResCancelled
    /\ outbound' = IF outbound = "open" THEN "dropped" ELSE outbound
    /\ UNCHANGED <<local_addr, clientVars, toClient, endpointVars, tunnelVars, selected,
                   request, pendingErr, resolved, log, serverVars>>

(***************************************************************************)
(* The client and the endpoint.  They act while the connection is open     *)
(* (the handler has neither returned nor been dropped).  The client sends  *)
(* its relay message once the handler has taken the handshake message,     *)
(* before or after the handshake response is written, and payload at any   *)
(* time after its relay message.                                           *)
(***************************************************************************)
ConnOpen == pc \notin {"Done", "Cancelled"}

client_send_handshake ==
    /\ ConnOpen /\ clientPc = 0 /\ ~clientEof
    /\ \E m \in Prefixes(HandshakeMsgs) : inbound' = inbound \o m
    /\ clientPc' = 1
    /\ UNCHANGED <<local_addr, clientEof, clientSent, toClient, clientWrShut, endpointVars,
                   toEndpoint, endpointWrShut, pc, selected, request, pendingErr, resolved,
                   outbound, l2r, r2l, result, log, serverVars>>

client_send_relay ==
    /\ ConnOpen /\ pc # "ReadHandshake" /\ clientPc = 1 /\ ~clientEof
    /\ \E m \in Prefixes(RelayMsgs) : inbound' = inbound \o m
    /\ clientPc' = 2
    /\ UNCHANGED <<local_addr, clientEof, clientSent, toClient, clientWrShut, endpointVars,
                   toEndpoint, endpointWrShut, pc, selected, request, pendingErr, resolved,
                   outbound, l2r, r2l, result, log, serverVars>>

client_send_data ==
    /\ ConnOpen /\ clientPc = 2 /\ ~clientEof /\ clientSent < MaxData
    /\ \E b \in PayloadBytes : inbound' = Append(inbound, b)
    /\ clientSent' = clientSent + 1
    /\ UNCHANGED <<local_addr, clientEof, clientPc, toClient, clientWrShut, endpointVars,
                   toEndpoint, endpointWrShut, pc, selected, request, pendingErr, resolved,
                   outbound, l2r, r2l, result, log, serverVars>>

client_close ==
    /\ ConnOpen /\ ~clientEof
    /\ clientEof' = TRUE
    /\ UNCHANGED <<local_addr, inbound, clientPc, clientSent, toClient, clientWrShut,
                   endpointVars, toEndpoint, endpointWrShut, pc, selected, request,
                   pendingErr, resolved, outbound, l2r, r2l, result, log, serverVars>>

endpoint_send_data ==
    /\ outbound = "open" /\ ~endpointEof /\ endpointSent < MaxData
    /\ \E b \in PayloadBytes : fromEndpoint' = Append(fromEndpoint, b)
    /\ endpointSent' = endpointSent + 1
    /\ UNCHANGED <<local_addr, clientVars, toClient, clientWrShut, endpointEof, toEndpoint,
                   endpointWrShut, pc, selected, request, pendingErr, resolved, outbound,
                   l2r, r2l, result, log, serverVars>>

endpoint_close ==
    /\ outbound = "open" /\ ~endpointEof
    /\ endpointEof' = TRUE
    /\ UNCHANGED <<local_addr, clientVars, toClient, clientWrShut, fromEndpoint, endpointSent,
                   toEndpoint, endpointWrShut, pc, selected, request, pendingErr, resolved,
                   outbound, l2r, r2l, result, log, serverVars>>

\* An accept() error: an std::io::Error, with what is_transient_error says
\* of it, or the bare io::ErrorKind::UnexpectedEof from_tcp_stream bails with
\* (an anyhow error that holds no std::io::Error).
NoAcceptErr == [type |-> "none", kind |-> "none", transient |-> FALSE]
AcceptIoErr(kind, transient) == [type |-> "io", kind |-> kind, transient |-> transient]
PeekEof == [type |-> "ErrorKind", kind |-> "UnexpectedEof", transient |-> FALSE]

\* The two copy directions of copy_bidirectional(l2r, r2l): "l2r" reads the
\* stream the tunnel holds as l2r and writes to the one it holds as r2l.
Dirs == {"l2r", "r2l"}
NoTraffic == [sent |-> <<>>, unread |-> <<>>, delivered |-> <<>>]
\* No function of the codec has been called.
NoArg == [kind |-> "none", methods |-> {}, method |-> "None", bytes |-> <<>>,
          addr |-> NoAddress, err |-> NoErr, status |-> "None"]
NoRes == [st |-> "none", methods |-> {}, method |-> "None", command |-> "None",
          addr |-> NoAddress, bytes |-> <<>>, err |-> NoErr, status |-> "None"]
NoCall == [fn |-> "none", arg |-> NoArg, res |-> NoRes, runs |-> 0, prev |-> NoRes]
\* No HTTP request is being served.
NoHttp == [pc |-> "Idle"]
\* An optional value: None, Some(v).
None == [some |-> FALSE, val |-> 0]
Some(v) == [some |-> TRUE, val |-> v]
\* LurkNodeStatus::build is not running.
NoBuild == [pc |-> "Idle", started |-> FALSE, uptime_secs |-> None,
            started_utc_ts |-> None, panic |-> "None"]
\* LurkServerStats::new: not started, timestamp 0; the server has not bound
\* yet, the endpoint's thread sees the initial values, the clock is at 1.
NoStats ==
    [server |-> "Bind", is_started |-> FALSE, started_ts_millis |-> 0,
     current_time |-> 0,
     seen_is_started |-> FALSE, seen_started_ts_millis |-> 0,
     now |-> 1, build |-> NoBuild, runs |-> 0]

\* The variables of the other specifications, at rest.
OtherInit ==
    /\ tunnels = [c \in 1..MaxConns |-> [d \in Dirs |-> NoTraffic]]
    /\ call = NoCall
    /\ http = NoHttp
    /\ stats = NoStats

ServerInit ==
    /\ runPc = "Bind"
    /\ trackerClosed = FALSE
    /\ tokenCancelled = FALSE
    /\ tasks = [c \in 1..MaxConns |-> "None"]
    /\ labels = [c \in 1..MaxConns |-> "None"]
    /\ accepted = 0
    /\ started = FALSE
    /\ handlers = [c \in 1..MaxConns |-> "None"]
    /\ spawned = [c \in 1..MaxConns |-> 0]
    /\ detached = [c \in 1..MaxConns |-> "None"]
    /\ acceptErr = NoAcceptErr

\* LurkTcpConnectionLabel: SOCKS5 (0x05 as u8) and Unknown(v).
NoLabel == [kind |-> "None", byte |-> 0]
LabelSOCKS5 == [kind |-> "SOCKS5", byte |-> SOCKS5_VERSION]
LabelUnknown(v) == [kind |-> "Unknown", byte |-> v]

\* accept() has returned the connection handle() is entered with, and the
\* loop has dispatched it.
ListenerInit ==
    /\ acceptPc = "Handled"
    /\ peeked = [n |-> 1, byte |-> SOCKS5_VERSION]
    /\ connLabel = LabelSOCKS5
    /\ acceptRes = ResOk

\* The state handle() is entered in: the connection was accepted with the
\* Socks5 label, nothing was read from it and nothing written.
ConnInit ==
    /\ local_addr \in LocalAddrs
    /\ inbound = <<>> /\ clientEof = FALSE /\ clientPc = 0 /\ clientSent = 0
    /\ toClient = <<>> /\ clientWrShut = FALSE
    /\ fromEndpoint = <<>> /\ endpointEof = FALSE /\ endpointSent = 0
    /\ toEndpoint = <<>> /\ endpointWrShut = FALSE
    /\ pc = "ReadHandshake"
    /\ selected = "Unset"
    /\ request = NoRequest
    /\ pendingErr = NoErr
    /\ resolved = NoAddress
    /\ outbound = "none"
    /\ l2r = "Idle" /\ r2l = "Idle"
    /\ result = ResNone
    /\ log = <<>>

Init == ConnInit /\ ServerInit /\ ListenerInit /\ OtherInit

Next ==
    \/ client_send_handshake
    \/ client_send_relay
    \/ client_send_data
    \/ client_close
    \/ endpoint_send_data
    \/ endpoint_close
    \/ process_handshake_read
    \/ process_handshake_write
    \/ process_relay_request_read
    \/ resolve_endpoint
    \/ connect_endpoint
    \/ write_success_reply
    \/ on_relay_request_handling_error
    \/ tunnel_copy_l2r
    \/ tunnel_copy_r2l
    \/ tunnel_eof_l2r
    \/ tunnel_eof_r2l
    \/ tunnel_shutdown_l2r
    \/ tunnel_shutdown_r2l
    \/ tunnel_finished
    \/ handler_cancelled

Spec == Init /\ [][Next]_vars

\* The runtime polls a task whose future can make progress: a direction
\* with bytes to copy copies them, one at end of stream shuts the other
\* stream's writing side down, and run() returns once the copy is ready.
\* Nothing is assumed of the client, the endpoint or the shutdown.
SpecFair ==
    /\ Init /\ [][Next]_vars
    /\ WF_vars(tunnel_copy_l2r) /\ WF_vars(tunnel_copy_r2l)
    /\ WF_vars(tunnel_eof_l2r) /\ WF_vars(tunnel_eof_r2l)
    /\ WF_vars(tunnel_shutdown_l2r) /\ WF_vars(tunnel_shutdown_r2l)
    /\ WF_vars(tunnel_finished /\ copy_bidirectional_ready(l2r, r2l))

(***************************************************************************)
(* LurkServer (server/mod.rs): the accept loop, the tasks spawned on the   *)
(* task tracker, the shutdown.  A task is "Running" from its spawn until   *)
(* its select! completes: with the handler's result ("Ok", "Err") or on    *)
(* the cancelled token ("Cancelled").  The connections are the values      *)
(* on_tcp_connection_established is called with: their label is any        *)
(* variant create_tcp_connection_handler matches on.                       *)
(***************************************************************************)
Conns == 1..MaxConns
Labels == {"Socks5", "Http", "HttpSecure", "Unknown"}

\* What incoming.next() fails with, and what the rest of accept() fails with.
IncomingErrors == { AcceptIoErr("Other", t) : t \in BOOLEAN }
PeekErrors == { AcceptIoErr("ConnectionReset", t) : t \in BOOLEAN } \cup {PeekEof}

\* Mutant: a connection with an Unknown label gets the SOCKS5 handler.
create_tcp_connection_handler_for_unknown(label) ==
    CASE label \in {"Http", "HttpSecure"} -> "LurkHttpHandler"
      [] OTHER -> "LurkSocks5Handler"

\* Mutant: every known label gets the SOCKS5 handler.
create_tcp_connection_handler_socks5_only(label) ==
    CASE label \in {"Http", "HttpSecure", "Socks5"} -> "LurkSocks5Handler"
      [] OTHER -> "Err"

\* create_tcp_connection_handler: the handler for the label, an error for
\* Unknown.
create_tcp_connection_handler(label) ==
    CASE label \in {"Http", "HttpSecure"} -> "LurkHttpHandler"
      [] label = "Socks5" -> "LurkSocks5Handler"
      [] OTHER -> "Err"

\* LurkTcpListener::bind succeeds, stats.on_server_started() is called and
\* run() enters its loop; or bind fails and run() returns the error.
server_bind ==
    /\ runPc = "Bind"
    /\ \E ok \in BOOLEAN :
         /\ runPc' = IF ok THEN "Select" ELSE "BindFailed"
         /\ started' = ok
    /\ UNCHANGED <<trackerClosed, tokenCancelled, tasks, labels, accepted, handlers, spawned,
                   detached, acceptErr, listenerVars, otherVars, connVars>>

\* accept(), first await: incoming.next() yields a stream; accept() goes on
\* to from_tcp_stream, which awaits the peek of the first byte.
listener_incoming ==
    /\ runPc = "Select" /\ accepted < MaxConns
    /\ accepted' = accepted + 1
    /\ runPc' = "Peek"
    /\ acceptErr' = NoAcceptErr
    /\ UNCHANGED <<trackerClosed, tokenCancelled, tasks, labels, started, handlers, spawned,
                   detached, listenerVars, otherVars, connVars>>

\* The accept arm of the loop's select! with Ok(conn), then
\* on_tcp_connection_established: the handler for the connection's label is
\* spawned on the task tracker, a connection without one is logged and left.
on_tcp_connection_established ==
    /\ runPc = "Peek"
    /\ \E label \in Labels :
         LET c == accepted
             handler == create_tcp_connection_handler(label)
         IN /\ labels' = [labels EXCEPT ![c] = label]
            /\ handlers' = [handlers EXCEPT ![c] = IF handler = "Err" THEN @ ELSE handler]
            /\ tasks' = [tasks EXCEPT ![c] = IF handler = "Err" THEN @ ELSE "Running"]
            /\ spawned' = [spawned EXCEPT ![c] = IF handler = "Err" THEN @ ELSE @ + 1]
    /\ runPc' = "Select"
    /\ UNCHANGED <<trackerClosed, tokenCancelled, accepted, started, detached, acceptErr,
                   listenerVars, otherVars, connVars>>

\* on_tcp_acception_error: whether the error is followed by the sleep of
\* DELAY_AFTER_ERROR_MILLIS: it holds an std::io::Error (downcast_ref) and
\* is_transient_error is false of it.
on_tcp_acception_error_sleeps(err) == err.type = "io" /\ ~err.transient

\* The accept arm with Err(err), from incoming.next() or from the rest of
\* accept(), then on_tcp_acception_error; the stream of a failed accept() is
\* dropped.
on_tcp_acception_error ==
    /\ runPc \in {"Select", "Peek"}
    /\ \E err \in IF runPc = "Select" THEN IncomingErrors ELSE PeekErrors :
         /\ acceptErr' = err
         /\ runPc' = IF on_tcp_acception_error_sleeps(err) THEN "Sleep" ELSE "Select"
    /\ UNCHANGED <<trackerClosed, tokenCancelled, tasks, labels, accepted, started, handlers,
                   spawned, detached, listenerVars, otherVars, connVars>>

\* The sleep is over and the loop goes round.
sleep_elapsed ==
    /\ runPc = "Sleep"
    /\ runPc' = "Select"
    /\ acceptErr' = NoAcceptErr
    /\ UNCHANGED <<trackerClosed, tokenCancelled, tasks, labels, accepted, started, handlers,
                   spawned, detached, listenerVars, otherVars, connVars>>

\* Mutant: the ctrl_c arm does not leave the loop.
after_ctrl_c_no_break(rp) == "Select"

\* Where run() is after the ctrl_c arm: break, on_server_finished (it does
\* nothing), then the await of task_tracker.wait().
after_ctrl_c(rp) == "Wait"

\* The ctrl_c arm of the loop's select!: on_shutdown_requested closes the
\* tracker and cancels the token, and the loop is left.  An accept() that is
\* still awaiting its peek is dropped with its stream.
on_shutdown_requested ==
    /\ runPc \in {"Select", "Peek"}
    /\ trackerClosed' = TRUE
    /\ tokenCancelled' = TRUE
    /\ runPc' = after_ctrl_c(runPc)
    /\ UNCHANGED <<tasks, labels, accepted, started, handlers, spawned, detached, acceptErr,
                   listenerVars, otherVars, connVars>>

\* Mutant: an error of a handler ends run().
after_handler_result_propagates(res, rp) == IF res = "Err" THEN "Failed" ELSE rp

\* What the handler's result does to run(): the task logs it, run() stays
\* where it is.
after_handler_result(res, rp) == rp

\* A task's select! takes the arm of connection_handler.handle(conn): the
\* handler has returned, with Ok or with an error that is logged.
task_handler_returned ==
    /\ \E c \in Conns, res \in {"Ok", "Err"} :
         /\ tasks[c] = "Running"
         /\ tasks' = [tasks EXCEPT ![c] = res]
         /\ runPc' = after_handler_result(res, runPc)
    /\ UNCHANGED <<trackerClosed, tokenCancelled, labels, accepted, started, handlers, spawned,
                   detached, acceptErr, listenerVars, otherVars, connVars>>

\* Mutant: a task does not look at the token.
token_cancelled_never(cancelled) == FALSE

\* token.cancelled() is ready once the token is cancelled.
token_cancelled(cancelled) == cancelled

\* A task's select! takes the arm of token.cancelled(): the handler's
\* future is dropped.
task_cancelled ==
    /\ token_cancelled(tokenCancelled)
    /\ \E c \in Conns :
         /\ tasks[c] = "Running"
         /\ tasks' = [tasks EXCEPT ![c] = "Cancelled"]
    /\ UNCHANGED <<runPc, trackerClosed, tokenCancelled, labels, accepted, started, handlers,
                   spawned, detached, acceptErr, listenerVars, otherVars, connVars>>

(***************************************************************************)
(* LurkHttpHandler (server/handlers/http.rs): what serve_request starts    *)
(* with tokio::spawn, outside the task tracker and without the token.      *)
(***************************************************************************)
\* serve_request of a CONNECT request whose outbound connection was
\* established: the task that will upgrade the connection and run the tunnel
\* is spawned, and 200 is returned.
http_serve_connect ==
    /\ \E c \in Conns :
         /\ tasks[c] = "Running" /\ handlers[c] = "LurkHttpHandler"
         /\ detached[c] = "None"
         /\ detached' = [detached EXCEPT ![c] = "Upgrading"]
    /\ UNCHANGED <<runPc, trackerClosed, tokenCancelled, tasks, labels, accepted, started,
                   handlers, spawned, acceptErr, listenerVars, otherVars, connVars>>

\* hyper::upgrade::on(request) completes in the spawned task: with the
\* upgraded stream while the connection is being served (the tunnel starts to
\* copy), with an error once the connection's future is gone.
http_upgrade ==
    /\ \E c \in Conns :
         /\ detached[c] = "Upgrading"
         /\ detached' = [detached EXCEPT ![c] = IF tasks[c] = "Running" THEN "Tunnel"
                                                  ELSE "Done"]
    /\ UNCHANGED <<runPc, trackerClosed, tokenCancelled, tasks, labels, accepted, started,
                   handlers, spawned, acceptErr, listenerVars, otherVars, connVars>>

\* serve_request of another request: the outbound connection is made and the
\* task that drives it (conn.await) is spawned.
http_serve_forward ==
    /\ \E c \in Conns :
         /\ tasks[c] = "Running" /\ handlers[c] = "LurkHttpHandler"
         /\ detached[c] = "None"
         /\ detached' = [detached EXCEPT ![c] = "Driver"]
    /\ UNCHANGED <<runPc, trackerClosed, tokenCancelled, tasks, labels, accepted, started,
                   handlers, spawned, acceptErr, listenerVars, otherVars, connVars>>

\* The spawned task ends: tunnel.run() or conn.await has returned, because
\* the client or the endpoint closed or an I/O error occurred.
http_spawned_task_ends ==
    /\ \E c \in Conns :
         /\ detached[c] \in {"Tunnel", "Driver"}
         /\ detached' = [detached EXCEPT ![c] = "Done"]
    /\ UNCHANGED <<runPc, trackerClosed, tokenCancelled, tasks, labels, accepted, started,
                   handlers, spawned, acceptErr, listenerVars, otherVars, connVars>>

\* Mutant: wait() completes as soon as the tracker is closed.
TaskTracker_wait_done_when_closed(closed, ts) == closed

\* Mutant: wait() completes at once.
TaskTracker_wait_done_at_once(closed, ts) == TRUE

\* TaskTracker::wait completes when the tracker is closed and no task
\* spawned on it is still running.
TaskTracker_wait_done(closed, ts) ==
    closed /\ \A c \in DOMAIN ts : ts[c] # "Running"

\* task_tracker.wait() has completed and run() returns Ok(()).
server_run_returns ==
    /\ runPc = "Wait"
    /\ TaskTracker_wait_done(trackerClosed, tasks)
    /\ runPc' = "Returned"
    /\ UNCHANGED <<trackerClosed, tokenCancelled, tasks, labels, accepted, started, handlers,
                   spawned, detached, acceptErr, listenerVars, otherVars, connVars>>

\* Mutant: main drops the result of run().
main_drops_run_result(rp) ==
    IF rp \in {"Returned", "BindFailed"} THEN "Ok" ELSE "Running"
\* main: server.run().await? hands an error of run() on as the result of
\* the process, Ok(()) once run() has returned without one.
main(rp) ==
    IF rp = "BindFailed" THEN "Err"
    ELSE IF rp = "Returned" THEN "Ok" ELSE "Running"

ServerNext ==
    \/ server_bind
    \/ listener_incoming
    \/ on_tcp_connection_established
    \/ on_tcp_acception_error
    \/ sleep_elapsed
    \/ on_shutdown_requested
    \/ task_handler_returned
    \/ task_cancelled
    \/ http_serve_connect
    \/ http_upgrade
    \/ http_serve_forward
    \/ http_spawned_task_ends
    \/ server_run_returns

SpecServer == Init /\ [][ServerNext]_vars

\* The scheduling the runtime gives: a task whose token is cancelled is
\* polled, and so is run() once wait() can complete.  Nothing is assumed of
\* the clients, the endpoints or the handlers.
SpecServerFair ==
    Init /\ [][ServerNext]_vars /\ WF_vars(task_cancelled) /\ WF_vars(server_run_returns)

(***************************************************************************)
(* LurkTcpListener::accept on one stream, byte by byte (net/tcp.rs), and   *)
(* what the loop of run() does with its result: the SOCKS5 handler then    *)
(* reads its handshake from the same stream.                               *)
(***************************************************************************)
Bytes == 0..255

\* Mutant: the byte is read from the stream, not peeked.
TcpStream_read_one(buf) ==
    IF buf = <<>> THEN [n |-> 0, byte |-> 0, rest |-> buf]
    ELSE [n |-> 1, byte |-> buf[1], rest |-> Tail(buf)]

\* tcp_stream.peek(&mut buff) with a buffer of one zeroed byte: the number
\* of bytes peeked, buff[0], and what is left unread in the stream.
TcpStream_peek(buf) ==
    IF buf = <<>> THEN [n |-> 0, byte |-> 0, rest |-> buf]
    ELSE [n |-> 1, byte |-> buf[1], rest |-> buf]

\* Mutant: buff[0] is classified whatever the number of bytes peeked.
from_tcp_stream_no_length_check(n, b) ==
    [st |-> "Ok", err |-> NoAcceptErr,
     label |-> IF b = SOCKS5_VERSION THEN LabelSOCKS5 ELSE LabelUnknown(b)]

\* LurkTcpConnectionLabel::from_tcp_stream after the peek returned Ok(n):
\* the label of buff[0] when one byte was peeked, UnexpectedEof otherwise.
from_tcp_stream(n, b) ==
    IF n = 1
      THEN [st |-> "Ok", err |-> NoAcceptErr,
            label |-> IF b = SOCKS5_VERSION THEN LabelSOCKS5 ELSE LabelUnknown(b)]
      ELSE [st |-> "Err", err |-> PeekEof, label |-> NoLabel]

\* The variant create_tcp_connection_handler sees for a label of the
\* listener.
DispatchLabel(label) == IF label.kind = "SOCKS5" THEN "Socks5" ELSE "Unknown"

\* The client's first write is one byte of any value.
client_send_byte ==
    /\ ConnOpen /\ clientPc = 0 /\ ~clientEof
    /\ \E b \in Bytes : inbound' = inbound \o <<b>>
    /\ clientPc' = 1
    /\ UNCHANGED <<local_addr, clientEof, clientSent, toClient, clientWrShut, endpointVars,
                   toEndpoint, endpointWrShut, pc, selected, request, pendingErr, resolved,
                   outbound, l2r, r2l, result, log, serverVars>>

\* accept(): the peek of from_tcp_stream returns once a byte is there or the
\* client has closed; the label is computed and create_connection wraps the
\* stream.
listener_accept ==
    /\ acceptPc = "Peek"
    /\ inbound # <<>> \/ clientEof
    /\ LET pk == TcpStream_peek(inbound)
           r == from_tcp_stream(pk.n, pk.byte)
       IN /\ inbound' = pk.rest
          /\ peeked' = [n |-> pk.n, byte |-> pk.byte]
          /\ connLabel' = r.label
          /\ acceptRes' = IF r.st = "Ok" THEN ResOk ELSE ResErr(r.err)
    /\ acceptPc' = "Returned"
    /\ UNCHANGED <<local_addr, clientEof, clientPc, clientSent, toClient, clientWrShut,
                   endpointVars, toEndpoint, endpointWrShut, pc, selected, request, pendingErr,
                   resolved, outbound, l2r, r2l, result, log, loopVars, otherVars>>

\* accept(): the peek fails with an I/O error, which from_tcp_stream bails
\* with.
listener_accept_io_error ==
    /\ acceptPc = "Peek"
    /\ \E err \in PeekErrors \ {PeekEof} : acceptRes' = ResErr(err)
    /\ acceptPc' = "Returned"
    /\ UNCHANGED <<connVars, loopVars, otherVars, peeked, connLabel>>

\* The accept arm of the loop's select! for this stream: Ok(conn) goes to
\* on_tcp_connection_established, which spawns the task of the label's
\* handler or drops the connection; Err(err) goes to on_tcp_acception_error.
listener_result_handled ==
    /\ acceptPc = "Returned" /\ runPc = "Peek"
    /\ acceptPc' = "Handled"
    /\ IF acceptRes = ResOk
         THEN LET c == accepted
                  label == DispatchLabel(connLabel)
                  handler == create_tcp_connection_handler(label)
              IN /\ labels' = [labels EXCEPT ![c] = label]
                 /\ handlers' = [handlers EXCEPT ![c] = IF handler = "Err" THEN @ ELSE handler]
                 /\ tasks' = [tasks EXCEPT ![c] = IF handler = "Err" THEN @ ELSE "Running"]
                 /\ spawned' = [spawned EXCEPT ![c] = IF handler = "Err" THEN @ ELSE @ + 1]
                 /\ pc' = IF handler = "LurkSocks5Handler" THEN "ReadHandshake" ELSE pc
                 /\ runPc' = "Select"
                 /\ UNCHANGED acceptErr
         ELSE /\ acceptErr' = acceptRes.err
              /\ runPc' = IF on_tcp_acception_error_sleeps(acceptRes.err) THEN "Sleep"
                          ELSE "Select"
              /\ UNCHANGED <<labels, handlers, tasks, spawned, pc>>
    /\ UNCHANGED <<local_addr, clientVars, toClient, clientWrShut, endpointVars, toEndpoint,
                   endpointWrShut, selected, request, pendingErr, resolved, outbound, l2r, r2l,
                   result, log, trackerClosed, tokenCancelled, accepted, started, detached,
                   peeked, connLabel, acceptRes, otherVars>>

\* The loop of run() is in accept() with the first stream, which awaits the
\* peek; the client has sent nothing yet and no handler exists.
InitListener ==
    /\ local_addr \in LocalAddrs
    /\ inbound = <<>> /\ clientEof = FALSE /\ clientPc = 0 /\ clientSent = 0
    /\ toClient = <<>> /\ clientWrShut = FALSE
    /\ fromEndpoint = <<>> /\ endpointEof = FALSE /\ endpointSent = 0
    /\ toEndpoint = <<>> /\ endpointWrShut = FALSE
    /\ pc = "NotStarted"
    /\ selected = "Unset"
    /\ request = NoRequest
    /\ pendingErr = NoErr
    /\ resolved = NoAddress
    /\ outbound = "none"
    /\ l2r = "Idle" /\ r2l = "Idle"
    /\ result = ResNone
    /\ log = <<>>
    /\ runPc = "Peek"
    /\ trackerClosed = FALSE
    /\ tokenCancelled = FALSE
    /\ tasks = [c \in 1..MaxConns |-> "None"]
    /\ labels = [c \in 1..MaxConns |-> "None"]
    /\ accepted = 1
    /\ started = TRUE
    /\ handlers = [c \in 1..MaxConns |-> "None"]
    /\ spawned = [c \in 1..MaxConns |-> 0]
    /\ detached = [c \in 1..MaxConns |-> "None"]
    /\ acceptErr = NoAcceptErr
    /\ acceptPc = "Peek"
    /\ peeked = [n |-> 0, byte |-> 0]
    /\ connLabel = NoLabel
    /\ acceptRes = ResNone
    /\ OtherInit

ListenerNext ==
    \/ client_send_byte
    \/ client_send_handshake
    \/ client_close
    \/ listener_accept
    \/ listener_accept_io_error
    \/ listener_result_handled
    \/ process_handshake_read
    \/ process_handshake_write

SpecListener == InitListener /\ [][ListenerNext]_vars

(***************************************************************************)
(* N tunnels at once (SpecTunnels).  Every connection's task holds its own *)
(* LurkTunnel over its own pair of streams (server/handlers/socks5.rs 93)  *)
(* and runs copy_bidirectional on it (io/tunnel.rs 58-60).  For connection *)
(* c and direction d, tunnels[c][d] holds what the source peer has sent,   *)
(* what of it the proxy has not read yet and what it has written to the    *)
(* destination peer.  In direction "l2r" the source is the client of c and *)
(* the destination its endpoint; in "r2l" the other way round.             *)
(***************************************************************************)
\* The i-th byte the source peer of direction d of connection c sends: all
\* bytes of all peers differ.
PeerByte(c, d, i) == (32 * c + (IF d = "l2r" THEN 0 ELSE 16) + i) % 256

\* Mutant: every task's tunnel is built on the outbound stream of the first
\* connection.
LurkTunnel_new_shared_outbound(c) == [l2r |-> c, r2l |-> 1]

\* LurkTunnel::new(inbound_stream, &mut outbound_stream) in the task of
\* connection c: the connections whose inbound and outbound streams the
\* tunnel borrows as l2r and r2l.
LurkTunnel_new(c) == [l2r |-> c, r2l |-> c]

\* The source peer of direction d of connection c writes its next byte.
peer_send(c, d) ==
    /\ Len(tunnels[c][d].sent) < MaxPayload
    /\ LET b == PeerByte(c, d, Len(tunnels[c][d].sent) + 1)
       IN tunnels' = [tunnels EXCEPT ![c][d].sent = Append(@, b),
                                     ![c][d].unread = Append(@, b)]
    /\ UNCHANGED <<connVars, loopVars, listenerVars, call, http, stats>>

\* One read and write of copy_bidirectional in the task of connection c,
\* direction d: a chunk of the unread bytes of the stream it reads is taken
\* and written, in order, to the other stream it holds.
tunnel_copy(c, d) ==
    LET t == LurkTunnel_new(c)
        src == IF d = "l2r" THEN t.l2r ELSE t.r2l
        dst == IF d = "l2r" THEN t.r2l ELSE t.l2r
        unread == tunnels[src][d].unread
    IN /\ unread # <<>>
       /\ \E n \in 1..Len(unread) :
            tunnels' = [x \in 1..MaxConns |-> [e \in Dirs |->
                IF e # d THEN tunnels[x][e]
                ELSE [sent |-> tunnels[x][e].sent,
                      unread |-> IF x = src THEN Drop(tunnels[x][e].unread, n)
                                 ELSE tunnels[x][e].unread,
                      delivered |-> IF x = dst
                                      THEN tunnels[x][e].delivered \o SubSeq(unread, 1, n)
                                      ELSE tunnels[x][e].delivered]]]
       /\ UNCHANGED <<connVars, loopVars, listenerVars, call, http, stats>>

TunnelsNext ==
    \E c \in 1..MaxConns, d \in Dirs :
        \/ peer_send(c, d)
        \/ tunnel_copy(c, d)

SpecTunnels == Init /\ [][TunnelsNext]_vars

(***************************************************************************)
(* The functions of the authenticator and of the SOCKS5 codec, each called *)
(* on one argument (SpecCodec).  The argument is drawn at the start; a     *)
(* decoder is given its whole input, followed by end of stream.            *)
(***************************************************************************)
AuthMethods == {"None", "GssAPI", "Password"}
\* What build() of the handshake response is reached with: a method given
\* to with_auth_method, or with_no_acceptable_method.
Selections == AuthMethods \cup {"NoMethod"}
ReplyStatuses ==
    {"Succeeded", "GeneralFailure", "ConnectionNotAllowed", "NetworkUnreachable",
     "HostUnreachable", "ConnectionRefused", "TtlExpired", "CommandNotSupported",
     "AddressTypeNotSupported"}

\* Method bytes on the wire: the three methods, 0xFF, and an unassigned one.
WireMethodBytes == MethodBytes \cup {3}
HandshakeWire ==
    UNION { { <<ver, n>> \o m : m \in [1..n -> WireMethodBytes] } :
            <<ver, n>> \in Versions \X (0..MaxMethods) }

\* Socket addresses a listener bound to an IPv4 address accepts on.
BoundAddrs == LocalAddrs \cup {SocketV4(<<127, 0, 0, 1>>, 11)}
\* Address values of the three variants.
AddressValues ==
    { SocketV4(<<127, 0, 0, 1>>, 2570),
      SocketV4(<<10, 0, 0, 7>>, 11),
      SocketV6(<<0, 0, 0, 0, 0, 0, 0, 0, 0, 0, 0, 0, 0, 0, 0, 1>>, 1080),
      DomainName(<<97>>, 80) }

\* Errors a handler can hold: LurkError variants, std::io::Error kinds, a
\* bare InvalidValue (ensure!), and an error of another type (bail! with a
\* message).
HandlerErrors ==
    { LurkErr(k) : k \in {"Unsupported:Socks5Command", "Unsupported:IPv6Address",
                         "NoAcceptableAuthMethod", "UnresolvedDomainName",
                         "UnsupportedAuthMethod", "DomainNameDecodingFailed",
                         "DataError:AuthMethod", "DataError:SocksCommand",
                         "DataError:AddressType"} }
    \cup { IoErr(k) : k \in {"ConnectionRefused", "ConnectionAborted", "NotFound",
                             "TimedOut", "UnexpectedEof", "BrokenPipe", "Other"} }
    \cup { InvalidValueErr(k) : k \in {"ProtocolVersion", "ReservedValue"} }
    \cup { [type |-> "anyhow", kind |-> "MethodNotSelected"] }

CodecArgs ==
    { [NoArg EXCEPT !.kind = "methods", !.methods = ms] : ms \in SUBSET AuthMethods }
    \cup { [NoArg EXCEPT !.kind = "selection", !.method = m] : m \in Selections }
    \cup { [NoArg EXCEPT !.kind = "reply", !.status = st, !.addr = a] :
           <<st, a>> \in ReplyStatuses \X BoundAddrs }
    \cup { [NoArg EXCEPT !.kind = "handshake", !.bytes = b] : b \in HandshakeWire }
    \cup { [NoArg EXCEPT !.kind = "relay", !.bytes = b] : b \in RelayMsgs }
    \cup { [NoArg EXCEPT !.kind = "address", !.addr = a] : a \in AddressValues }
    \cup { [NoArg EXCEPT !.kind = "error", !.err = e] : e \in HandlerErrors }

\* The call of fn on the argument has returned res.
Called(fn, res) ==
    /\ call' = [fn |-> fn, arg |-> call.arg, res |-> res, runs |-> call.runs + 1,
                prev |-> call.res]
    /\ UNCHANGED <<connVars, loopVars, listenerVars, tunnels, http, stats>>

\* What a decoder's result is as the result of a call.
ResOfDec(d, val) ==
    IF d.st = "ok" THEN [val EXCEPT !.st = "ok", !.bytes = d.rest]
    ELSE [NoRes EXCEPT !.st = "err", !.err = d.err]

\* select_auth_method on a fresh authenticator, any number of times on the
\* same peer methods.
call_select_auth_method ==
    /\ call.arg.kind = "methods" /\ call.runs < MaxRuns
    /\ \E m \in select_auth_method(call.arg.methods) :
         Called("select_auth_method", [NoRes EXCEPT !.st = "ok", !.method = m])

\* HandshakeResponse::write_to: the method byte the builder stored is
\* checked to be a method or 0xFF, then VER METHOD is written.
HandshakeResponse_write_to(method) ==
    IF method # SOCKS5_AUTH_METHOD_NOT_ACCEPTABLE /\ ~IsMethodByte(method)
      THEN [NoRes EXCEPT !.st = "err", !.err = LurkErr("DataError:AuthMethod")]
      ELSE [NoRes EXCEPT !.st = "ok", !.bytes = HandshakeResponse_bytes(method)]

call_HandshakeResponse_write_to ==
    /\ call.arg.kind = "selection" /\ call.fn = "none"
    /\ Called("HandshakeResponse::write_to",
              HandshakeResponse_write_to(HandshakeResponse_method(call.arg.method)))

\* RelayResponse::write_to on the response the builder made of a status and
\* a bound socket address; Address::write_to panics (todo!) for what it does
\* not write.
call_RelayResponse_write_to ==
    /\ call.arg.kind = "reply" /\ call.fn = "none"
    /\ Called("RelayResponse::write_to",
              IF Address_write_to(call.arg.addr).ok
                THEN [NoRes EXCEPT !.st = "ok",
                        !.bytes = RelayResponse_bytes(call.arg.status, call.arg.addr)]
                ELSE [NoRes EXCEPT !.st = "panic"])

call_HandshakeRequest_read_from ==
    /\ call.arg.kind = "handshake" /\ call.fn = "none"
    /\ LET d == HandshakeRequest_read_from(call.arg.bytes, TRUE)
       IN Called("HandshakeRequest::read_from",
                 ResOfDec(d, [NoRes EXCEPT !.methods = IF d.st = "ok" THEN d.val ELSE {}]))

call_RelayRequest_read_from ==
    /\ call.arg.kind = "relay" /\ call.fn = "none"
    /\ LET d == RelayRequest_read_from(call.arg.bytes, TRUE)
       IN Called("RelayRequest::read_from",
                 ResOfDec(d, IF d.st = "ok"
                               THEN [NoRes EXCEPT !.command = d.val.command,
                                                  !.addr = d.val.endpoint_address]
                               ELSE NoRes))

\* a.write_to(buf), then Address::read_from on the bytes written.
call_Address_write_then_read ==
    /\ call.arg.kind = "address" /\ call.fn = "none"
    /\ LET w == Address_write_to(call.arg.addr)
           d == Address_read_from(w.bytes, TRUE)
       IN Called("Address::write_to/read_from",
                 IF ~w.ok THEN [NoRes EXCEPT !.st = "panic"]
                 ELSE ResOfDec(d, IF d.st = "ok" THEN [NoRes EXCEPT !.addr = d.val]
                                  ELSE NoRes))

\* ReplyStatus::from(err), as with_err calls it.
call_ReplyStatus_from ==
    /\ call.arg.kind = "error" /\ call.fn = "none"
    /\ Called("ReplyStatus::from",
              [NoRes EXCEPT !.st = "ok", !.status = ReplyStatus_from(call.arg.err)])

InitCodec ==
    /\ ConnInit /\ ServerInit /\ ListenerInit
    /\ tunnels = [c \in 1..MaxConns |-> [d \in Dirs |-> NoTraffic]]
    /\ http = NoHttp
    /\ stats = NoStats
    /\ call \in { [NoCall EXCEPT !.arg = a] : a \in CodecArgs }

CodecNext ==
    \/ call_select_auth_method
    \/ call_HandshakeResponse_write_to
    \/ call_RelayResponse_write_to
    \/ call_HandshakeRequest_read_from
    \/ call_RelayRequest_read_from
    \/ call_Address_write_then_read
    \/ call_ReplyStatus_from

SpecCodec == InitCodec /\ [][CodecNext]_vars

(***************************************************************************)
(* The HTTP handler.  LurkHttpHandler::serve_request serves one request:   *)
(* it extracts the target from the URI authority or from the Host header,  *)
(* resolves it, and either opens the CONNECT tunnel or forwards the        *)
(* request.  Each action is the code between two awaits; the outcome of a  *)
(* resolution, of a connect, of the upgrade and of the exchange with the   *)
(* origin is the environment's choice.                                     *)
(***************************************************************************)
\* What the host part of an authority can be: an IPv4 literal, a bracketed
\* IPv6 literal, brackets around something that is no IPv6 address, any
\* other text.
HostTexts == {"v4", "v6", "badv6", "name"}
Schemes == {"none", "http", "https", "ftp"}
Methods == {"CONNECT", "GET"}
NoAuthority == [present |-> FALSE, host |-> "name", port |-> FALSE]
Authorities ==
    { [present |-> TRUE, host |-> h, port |-> p] : h \in HostTexts, p \in BOOLEAN }
\* The Host header: absent, not a string, not an authority, or an authority.
HostHeaders ==
    { [state |-> s, authority |-> NoAuthority] :
        s \in {"absent", "badEncoding", "notAuthority"} }
    \cup { [state |-> "ok", authority |-> a] : a \in Authorities }
\* A URI with a scheme has an authority; it has a path and query
\* (path_and_query() is Some) unless it is an authority alone.
Requests ==
    { r \in [method : Methods, scheme : Schemes,
             authority : Authorities \cup {NoAuthority},
             path : BOOLEAN, host : HostHeaders] :
        /\ r.path = (r.scheme # "none" \/ ~r.authority.present)
        /\ r.scheme # "none" => r.authority.present }
\* The URI of a request as received: its scheme, whether it has an authority
\* (and whose), whether it has a path and query.
UriOf(r) ==
    [scheme |-> r.scheme,
     authority |-> IF r.authority.present THEN "Uri" ELSE "None",
     path |-> r.path]

NoTarget == [some |-> FALSE, addr |-> NoAddress]
SomeTarget(a) == [some |-> TRUE, addr |-> a]

\* Mutant: brackets are not looked at, whatever is no IPv4 address is taken
\* for a domain name.
parse_host_from_authority_no_brackets(scheme_str, authority) ==
    LET port == IF authority.port THEN 8080
                ELSE IF scheme_str = "https" THEN 443 ELSE 80
    IN  IF ~authority.port /\ scheme_str \notin {"none", "http", "https"}
        THEN NoTarget
        ELSE IF authority.host = "v4"
        THEN SomeTarget(SocketV4(<<127, 0, 0, 1>>, port))
        ELSE SomeTarget(DomainName(<<97>>, port))
\* utils::parse_host_from_authority: the port of the authority, else the
\* default port of the scheme; a bracketed host must be an IPv6 address, any
\* other host is an IPv4 address or else a domain name.
parse_host_from_authority(scheme_str, authority) ==
    LET port == IF authority.port THEN 8080
                ELSE IF scheme_str = "https" THEN 443 ELSE 80
    IN  IF ~authority.port /\ scheme_str \notin {"none", "http", "https"}
        THEN NoTarget
        ELSE IF authority.host = "v6"
        THEN SomeTarget(SocketV6(<<0, 0, 0, 0, 0, 0, 0, 0, 0, 0, 0, 0, 0, 0, 0, 1>>, port))
        ELSE IF authority.host = "badv6"
        THEN NoTarget
        ELSE IF authority.host = "v4"
        THEN SomeTarget(SocketV4(<<127, 0, 0, 1>>, port))
        ELSE SomeTarget(DomainName(<<97>>, port))

\* utils::get_host_addr_from_authority.
get_host_addr_from_authority(req) ==
    IF ~req.authority.present THEN NoTarget
    ELSE parse_host_from_authority(req.scheme, req.authority)

\* utils::get_host_addr_from_header.
get_host_addr_from_header(req) ==
    IF req.host.state # "ok" THEN NoTarget
    ELSE parse_host_from_authority(req.scheme, req.host.authority)

\* utils::get_host_addr: the authority first, the Host header else.
get_host_addr(req) ==
    IF get_host_addr_from_authority(req).some
    THEN get_host_addr_from_authority(req)
    ELSE get_host_addr_from_header(req)

\* utils::reassemble_uri: the scheme defaults to http and the authority is
\* the Host header's; Uri::from_parts refuses a scheme without a path and
\* the URI then stays as it was.
reassemble_uri(uri) ==
    IF ~uri.path THEN uri
    ELSE [scheme |-> IF uri.scheme = "none" THEN "http" ELSE uri.scheme,
          authority |-> "Host", path |-> TRUE]

\* The URI of the request after get_host_addr: cut down to path and query
\* when the authority gave the target and there is a path, reassembled
\* around the Host header's authority when the header gave it.
UriAfter_get_host_addr(req) ==
    IF get_host_addr_from_authority(req).some
    THEN IF req.path
         THEN [scheme |-> "none", authority |-> "None", path |-> TRUE]
         ELSE UriOf(req)
    ELSE IF get_host_addr_from_header(req).some
    THEN reassemble_uri(UriOf(req))
    ELSE UriOf(req)

\* The responses the handler builds itself.
bad_request == "BAD_REQUEST"
server_error == "INTERNAL_SERVER_ERROR"
ok == "OK"

\* A request has arrived and nothing has been done for it yet.
HttpRequest(r) ==
    [pc |-> "Request", request |-> r, uri |-> UriOf(r),
     target |-> NoTarget, remote_addr |-> NoAddress,
     response |-> "None", err |-> "None",
     dials |-> 0, outbound |-> "None", keepalive |-> 0,
     upgrade |-> "None", tunnel |-> "None", copied |-> 0]

httpUnchanged == UNCHANGED <<connVars, loopVars, listenerVars, tunnels, call, stats>>

\* serve_request up to its first await: no target gives 400; a socket
\* address needs no resolution; a domain name awaits lookup_host.
serve_request_get_host_addr ==
    /\ http.pc = "Request"
    /\ LET t == get_host_addr(http.request)
           u == UriAfter_get_host_addr(http.request)
       IN  http' =
             IF ~t.some
             THEN [http EXCEPT !.pc = "Responded", !.response = bad_request]
             ELSE IF t.addr.kind = "Domain"
             THEN [http EXCEPT !.pc = "Resolve", !.target = t, !.uri = u]
             ELSE [http EXCEPT !.pc = "Connect", !.target = t, !.uri = u,
                               !.remote_addr = t.addr]
    /\ httpUnchanged

\* Address::to_socket_addr of a domain name returns; its error leaves
\* serve_request through the question mark.
serve_request_to_socket_addr ==
    /\ http.pc = "Resolve"
    /\ \E res \in {"Ok", "Io", "UnresolvedDomainName"} :
         http' =
           IF res = "Ok"
           THEN [http EXCEPT !.pc = "Connect",
                   !.remote_addr = SocketV4(<<10, 0, 0, 7>>, http.target.addr.port)]
           ELSE [http EXCEPT !.pc = "Failed", !.err = res]
    /\ httpUnchanged

\* tcp::establish_tcp_connection as the specification has it (4.7, step 2:
\* outbound TCP to the extracted address with keep-alive): the stream it
\* returns has had the keep-alive options applied once.
tcp_establish_tcp_connection(established) ==
    IF established THEN [outbound |-> "Open", keepalive |-> 1]
    ELSE [outbound |-> "None", keepalive |-> 0]

\* The CONNECT branch: the connection to the target is established or not;
\* when it is, the task that awaits the upgrade is spawned and 200 returned.
serve_request_connect ==
    /\ http.pc = "Connect" /\ http.request.method = "CONNECT"
    /\ \E established \in BOOLEAN :
         http' =
           IF established
           THEN [http EXCEPT !.pc = "Responded", !.response = ok,
                   !.dials = @ + 1, !.upgrade = "Pending",
                   !.outbound = tcp_establish_tcp_connection(TRUE).outbound,
                   !.keepalive = tcp_establish_tcp_connection(TRUE).keepalive]
           ELSE [http EXCEPT !.pc = "Responded", !.response = server_error,
                   !.dials = @ + 1]
    /\ httpUnchanged

\* The spawned task: hyper::upgrade::on returns; on an error the task ends
\* and drops the outbound stream, else the tunnel is made and run.
upgrade_task_on ==
    /\ http.upgrade = "Pending"
    /\ \E upgraded \in BOOLEAN :
         http' =
           IF upgraded
           THEN [http EXCEPT !.upgrade = "Upgraded", !.tunnel = "Running"]
           ELSE [http EXCEPT !.upgrade = "Failed", !.outbound = "Closed"]
    /\ httpUnchanged

\* The running tunnel moves a byte.
upgrade_task_tunnel_copy ==
    /\ http.tunnel = "Running" /\ http.copied < MaxPayload
    /\ http' = [http EXCEPT !.copied = @ + 1]
    /\ httpUnchanged

\* tunnel.run() returns, an error is logged only; the task ends.
upgrade_task_tunnel_returned ==
    /\ http.tunnel = "Running"
    /\ http' = [http EXCEPT !.tunnel = "Done", !.outbound = "Closed"]
    /\ httpUnchanged

\* The forwarding branch: TcpStream::connect returns; the stream goes to the
\* client handshake as connect made it.
serve_request_forward_connect ==
    /\ http.pc = "Connect" /\ http.request.method # "CONNECT"
    /\ \E connected \in BOOLEAN :
         http' =
           IF connected
           THEN [http EXCEPT !.pc = "Handshake", !.dials = @ + 1, !.outbound = "Open"]
           ELSE [http EXCEPT !.pc = "Failed", !.err = "Io", !.dials = @ + 1]
    /\ httpUnchanged

\* The HTTP/1.1 client handshake returns; on success the task that drives
\* the connection is spawned.
serve_request_forward_handshake ==
    /\ http.pc = "Handshake"
    /\ \E done \in BOOLEAN :
         http' =
           IF done
           THEN [http EXCEPT !.pc = "SendRequest"]
           ELSE [http EXCEPT !.pc = "Failed", !.err = "Hyper", !.outbound = "Closed"]
    /\ httpUnchanged

\* send_request returns: the response of the origin is handed back.
serve_request_forward_send_request ==
    /\ http.pc = "SendRequest"
    /\ \E sent \in BOOLEAN :
         http' =
           IF sent
           THEN [http EXCEPT !.pc = "Responded", !.response = "Origin"]
           ELSE [http EXCEPT !.pc = "Failed", !.err = "Hyper", !.outbound = "Closed"]
    /\ httpUnchanged

InitHttp ==
    /\ ConnInit /\ ServerInit /\ ListenerInit
    /\ tunnels = [c \in 1..MaxConns |-> [d \in Dirs |-> NoTraffic]]
    /\ call = NoCall
    /\ stats = NoStats
    /\ http \in { HttpRequest(r) : r \in Requests }

HttpNext ==
    \/ serve_request_get_host_addr
    \/ serve_request_to_socket_addr
    \/ serve_request_connect
    \/ upgrade_task_on
    \/ upgrade_task_tunnel_copy
    \/ upgrade_task_tunnel_returned
    \/ serve_request_forward_connect
    \/ serve_request_forward_handshake
    \/ serve_request_forward_send_request

SpecHttp == InitHttp /\ [][HttpNext]_vars

(***************************************************************************)
(* The server stats and the health endpoint.  main spawns the endpoint     *)
(* before it awaits LurkServer::run, on a multi-threaded runtime: the      *)
(* endpoint answers /healthcheck from LurkNodeStatus::build on one thread  *)
(* while run calls on_server_started on another.  The two atomics are      *)
(* stored and loaded with Ordering::Relaxed: a store reaches the reading   *)
(* thread at some later step, the two stores in either order.              *)
(***************************************************************************)
MaxClock == 3

statsUnchanged == UNCHANGED <<connVars, loopVars, listenerVars, tunnels, call, http>>

\* Utc::now() moves on.
clock_tick ==
    /\ stats.now < MaxClock
    /\ stats' = [stats EXCEPT !.now = @ + 1]
    /\ statsUnchanged

\* LurkServer::run binds the listener, or fails to and returns.
stats_server_bind ==
    /\ stats.server = "Bind"
    /\ \E bound \in BOOLEAN :
         stats' = [stats EXCEPT !.server = IF bound THEN "Bound" ELSE "BindFailed"]
    /\ statsUnchanged

\* on_server_started up to its first store: the assertion holds, the time is
\* taken, is_started becomes true.
on_server_started_is_started ==
    /\ stats.server = "Bound" /\ ~stats.is_started
    /\ stats' = [stats EXCEPT !.server = "StoringTimestamp",
                   !.current_time = stats.now, !.is_started = TRUE]
    /\ statsUnchanged

\* The second store of on_server_started: started_ts_millis becomes the
\* time taken before the first store.
on_server_started_started_ts_millis ==
    /\ stats.server = "StoringTimestamp"
    /\ stats' = [stats EXCEPT !.server = "Started",
                   !.started_ts_millis = stats.current_time]
    /\ statsUnchanged

\* A relaxed store reaches the endpoint's thread.
seen_is_started ==
    /\ stats.is_started /\ ~stats.seen_is_started
    /\ stats' = [stats EXCEPT !.seen_is_started = TRUE]
    /\ statsUnchanged

seen_started_ts_millis ==
    /\ stats.started_ts_millis # stats.seen_started_ts_millis
    /\ stats' = [stats EXCEPT !.seen_started_ts_millis = stats.started_ts_millis]
    /\ statsUnchanged

\* A /healthcheck request arrives: LurkHttpService::call calls build.
healthcheck_request ==
    /\ stats.build.pc \in {"Idle", "Done"} /\ stats.runs < MaxRuns
    /\ stats' = [stats EXCEPT !.build = [NoBuild EXCEPT !.pc = "Build"], !.runs = @ + 1]
    /\ statsUnchanged

\* Mutant: build asks the getters whatever is_server_started says.
build_asks_getters_always(is_server_started) == TRUE
\* build asks the getters only if is_server_started() is true.
build_asks_getters(is_server_started) == is_server_started

\* build loads is_started; false ends it with both fields None.
build_is_server_started ==
    /\ stats.build.pc = "Build"
    /\ stats' = [stats EXCEPT
                   !.build.started = stats.seen_is_started,
                   !.build.pc = IF build_asks_getters(stats.seen_is_started)
                                THEN "GetUptime" ELSE "Done"]
    /\ statsUnchanged

\* get_uptime: both getters assert is_started, then now - started.
build_get_uptime ==
    /\ stats.build.pc = "GetUptime"
    /\ stats' =
         IF ~stats.seen_is_started
         THEN [stats EXCEPT !.build.pc = "Panicked", !.build.panic = "NotStarted"]
         ELSE IF stats.now < stats.seen_started_ts_millis
         THEN [stats EXCEPT !.build.pc = "Panicked", !.build.panic = "ClockWentBack"]
         ELSE [stats EXCEPT !.build.pc = "GetStarted",
                 !.build.uptime_secs = Some(stats.now - stats.seen_started_ts_millis)]
    /\ statsUnchanged

\* get_started_utc_timestamp: asserts is_started, loads started_ts_millis.
build_get_started_utc_timestamp ==
    /\ stats.build.pc = "GetStarted"
    /\ stats' =
         IF ~stats.seen_is_started
         THEN [stats EXCEPT !.build.pc = "Panicked", !.build.panic = "NotStarted"]
         ELSE [stats EXCEPT !.build.pc = "Done",
                 !.build.started_utc_ts = Some(stats.seen_started_ts_millis)]
    /\ statsUnchanged

InitStats ==
    /\ ConnInit /\ ServerInit /\ ListenerInit
    /\ tunnels = [c \in 1..MaxConns |-> [d \in Dirs |-> NoTraffic]]
    /\ call = NoCall
    /\ http = NoHttp
    /\ stats = NoStats

StatsNext ==
    \/ clock_tick
    \/ stats_server_bind
    \/ on_server_started_is_started
    \/ on_server_started_started_ts_millis
    \/ seen_is_started
    \/ seen_started_ts_millis
    \/ healthcheck_request
    \/ build_is_server_started
    \/ build_get_uptime
    \/ build_get_started_utc_timestamp

SpecStats == InitStats /\ [][StatsNext]_vars

(***************************************************************************)
(* Properties of the SOCKS5 handler (Spec).                                *)
(***************************************************************************)
HasEvent(ev, what) == \E i \in 1..Len(log) : log[i].ev = ev /\ log[i].what = what
Failed(ev) == \E i \in 1..Len(log) : log[i].ev = ev /\ ~log[i].ok
ConnectRequestRead == HasEvent("ReadRelayRequest", "Connect")
\* The bytes of the handshake response that selects the None method.
MethodSelectedBytes == <<SOCKS5_VERSION, SOCKS5_AUTH_METHOD_NONE>>
\* The write of the Succeeded relay response is log entry j and completed.
SucceededWrittenAt(j) ==
    log[j].ev = "WriteRelayResponse" /\ log[j].what = "Succeeded" /\ log[j].ok
TunnelTouched ==
    \/ l2r # "Idle" \/ r2l # "Idle" \/ pc = "Tunnel"
    \/ toEndpoint # <<>> \/ clientWrShut \/ endpointWrShut
    \/ Count("CopyL2R") + Count("CopyR2L") + Count("TunnelClosed") > 0

\* C1: on a connection whose relay request was read with the Connect
\* command the handler issues at most one RelayResponse at any time, and
\* exactly one once it has run to completion.
C1_ExactlyOneRelayResponse ==
    ConnectRequestRead =>
        /\ Count("WriteRelayResponse") <= 1
        /\ pc = "Done" => Count("WriteRelayResponse") = 1

C1_Witness ==
    /\ pc = "Done" /\ ConnectRequestRead
    /\ Count("WriteRelayResponse") = 1
    /\ HasEvent("TunnelClosed", "ok")

\* C2: a RelayResponse whose status is not Succeeded is the last thing the
\* handler does: the handler has returned, the bytes on the inbound stream
\* are the handshake response and (if the write went through) that one
\* response, and no tunnel was started.
C2_NothingAfterFailureReply ==
    \A i \in 1..Len(log) :
        (log[i].ev = "WriteRelayResponse" /\ log[i].what # "Succeeded") =>
            /\ i = Len(log)
            /\ pc = "Done"
            /\ ~TunnelTouched
            /\ toClient = MethodSelectedBytes \o
                   (IF log[i].ok THEN RelayResponse_bytes(log[i].what, local_addr) ELSE <<>>)

C2_Witness ==
    /\ pc = "Done"
    /\ \E i \in 1..Len(log) :
          log[i].ev = "WriteRelayResponse" /\ log[i].what = "ConnectionRefused" /\ log[i].ok
    /\ clientSent > 0

\* C3: every byte the tunnel copies, in either direction, is copied after
\* the Succeeded RelayResponse was completely written, so the bytes of that
\* response precede every tunnelled byte on the inbound stream; the tunnel is
\* not started in any way before that write, and when that write fails the
\* handler returns without a tunnel.
C3_NoTunnelBeforeSuccessReply ==
    /\ \A i \in 1..Len(log) :
          log[i].ev \in {"CopyL2R", "CopyR2L", "TunnelClosed"} =>
              \E j \in 1..(i - 1) : SucceededWrittenAt(j)
    /\ TunnelTouched =>
          /\ \E j \in 1..Len(log) : SucceededWrittenAt(j)
          /\ Len(toClient) >= 12
          /\ SubSeq(toClient, 1, 12) =
                 MethodSelectedBytes \o RelayResponse_bytes("Succeeded", local_addr)
    /\ (\E j \in 1..Len(log) :
           log[j].ev = "WriteRelayResponse" /\ log[j].what = "Succeeded" /\ ~log[j].ok) =>
          /\ ~TunnelTouched
          /\ pc = "Done"
          /\ result = ResErr(WriteErr)

C3_Witness ==
    /\ Count("CopyL2R") > 0 /\ Count("CopyR2L") > 0
    /\ Len(toClient) = 13
    /\ toEndpoint # <<>>

\* C4: the handler only moves forward through its suspension points.  At
\* most one handshake request and one relay request are read; the relay
\* request is read only after a handshake response with a selected method was
\* written; resolution and connection of the outbound side happen only after
\* a relay request with the Connect command was read; and no step takes the
\* handler back to an earlier point or out of a terminal one.
Rank(p) ==
    CASE p = "ReadHandshake" -> 1
      [] p = "WriteHandshake" -> 2
      [] p = "ReadRelay" -> 3
      [] p = "Resolve" -> 4
      [] p = "Connect" -> 5
      [] p \in {"WriteReply", "WriteErrReply"} -> 6
      [] p = "Tunnel" -> 7
      [] p \in {"Done", "Cancelled"} -> 8

C4_Order ==
    /\ Count("ReadHandshakeRequest") <= 1
    /\ Count("ReadRelayRequest") <= 1
    /\ \A i \in 1..Len(log) :
          log[i].ev = "ReadRelayRequest" =>
              \E j \in 1..(i - 1) :
                  /\ log[j].ev = "WriteHandshakeResponse" /\ log[j].ok
                  /\ log[j].what \in {"None", "GssAPI", "Password"}
    /\ \A i \in 1..Len(log) :
          log[i].ev \in {"Lookup", "Connect", "KeepAlive"} =>
              \E j \in 1..(i - 1) :
                  log[j].ev = "ReadRelayRequest" /\ log[j].ok /\ log[j].what = "Connect"
    /\ outbound # "none" => ConnectRequestRead
    /\ pc \in {"ReadRelay", "Resolve", "Connect", "WriteReply", "WriteErrReply", "Tunnel"} =>
          toClient # <<>>

C4_ForwardOnly ==
    [] C4_Order /\ [][pc' # pc => Rank(pc') > Rank(pc)]_vars

C4_Witness ==
    /\ pc = "Tunnel"
    /\ HasEvent("Lookup", "ok")
    /\ outbound = "open"

\* C5 as stated: when no offered method is supported the handler writes
\* 05 FF and fails with NoAcceptableAuthenticationMethod, having read no
\* relay request, issued no RelayResponse and opened no outbound connection.
C5_AsStated ==
    (selected = "NoMethod" /\ pc = "Done") =>
        /\ toClient = <<SOCKS5_VERSION, SOCKS5_AUTH_METHOD_NOT_ACCEPTABLE>>
        /\ result = ResErr(LurkErr("NoAcceptableAuthenticationMethod"))
        /\ Count("ReadRelayRequest") = 0
        /\ Count("WriteRelayResponse") = 0
        /\ Count("Lookup") + Count("Connect") = 0
        /\ outbound = "none"

\* C5: when no offered method is supported the handler makes one write, of
\* 05 FF.  When the write goes through the handler fails with
\* NoAcceptableAuthenticationMethod; when it does not, nothing reaches the
\* client and the handler fails with the write's error.  Either way no relay
\* request is read, no RelayResponse is issued and no outbound connection is
\* opened.
C5_NoAcceptableMethod ==
    selected = "NoMethod" =>
        /\ pc \in {"WriteHandshake", "Done", "Cancelled"}
        /\ Count("ReadRelayRequest") = 0
        /\ Count("WriteRelayResponse") = 0
        /\ Count("Lookup") + Count("Connect") = 0
        /\ outbound = "none"
        /\ toClient \in {<<>>, <<SOCKS5_VERSION, SOCKS5_AUTH_METHOD_NOT_ACCEPTABLE>>}
        /\ pc = "Done" =>
              /\ Count("WriteHandshakeResponse") = 1
              /\ LET w == Events("WriteHandshakeResponse")[1]
                 IN /\ w.what = "NoMethod"
                    /\ w.ok => /\ toClient # <<>>
                               /\ result = ResErr(LurkErr("NoAcceptableAuthenticationMethod"))
                    /\ ~w.ok => /\ toClient = <<>>
                                /\ result = ResErr(WriteErr)

C5_Witness ==
    /\ selected = "NoMethod" /\ pc = "Done"
    /\ toClient = <<SOCKS5_VERSION, SOCKS5_AUTH_METHOD_NOT_ACCEPTABLE>>
    /\ result = ResErr(LurkErr("NoAcceptableAuthenticationMethod"))
    /\ clientPc = 2

\* The relay request read carried the Bind or the UdpAssociate command.
UnsupportedCommandRead ==
    HasEvent("ReadRelayRequest", "Bind") \/ HasEvent("ReadRelayRequest", "UdpAssociate")

\* C6 as stated: a relay request with Bind or UdpAssociate gets exactly one
\* RelayResponse with CommandNotSupported bound to the local address, no
\* resolution or outbound connection is attempted, and the handler returns
\* success.
C6_AsStated ==
    (UnsupportedCommandRead /\ pc = "Done") =>
        /\ Count("WriteRelayResponse") = 1
        /\ Events("WriteRelayResponse")[1].what = "CommandNotSupported"
        /\ Events("WriteRelayResponse")[1].addr = local_addr
        /\ Count("Lookup") + Count("Connect") = 0
        /\ outbound = "none"
        /\ result = ResOk

\* C6: a relay request with Bind or UdpAssociate gets exactly one
\* RelayResponse with CommandNotSupported bound to the local address, no
\* resolution or outbound connection is attempted, and the handler returns
\* what the write of that response returned: success when the response was
\* written, the write's error when it was not.
C6_UnsupportedCommand ==
    UnsupportedCommandRead =>
        /\ Count("Lookup") + Count("Connect") = 0
        /\ outbound = "none"
        /\ pc \in {"WriteErrReply", "Done", "Cancelled"}
        /\ pc = "Done" =>
              /\ Count("WriteRelayResponse") = 1
              /\ LET w == Events("WriteRelayResponse")[1]
                 IN /\ w.what = "CommandNotSupported"
                    /\ w.addr = local_addr
                    /\ w.ok => /\ result = ResOk
                               /\ toClient = MethodSelectedBytes \o
                                      <<SOCKS5_VERSION, SOCKS5_REPLY_COMMAND_NOT_SUPPORTED, 0>>
                                      \o Address_write_to(local_addr).bytes
                    /\ ~w.ok => /\ result = ResErr(WriteErr)
                                /\ toClient = MethodSelectedBytes

C6_Witness ==
    /\ HasEvent("ReadRelayRequest", "Bind") /\ pc = "Done"
    /\ result = ResOk
    /\ Len(toClient) = 12

\* The establishment of the outbound connection failed: the lookup, the
\* connect or the keep-alive.
EstablishFailed == Failed("Lookup") \/ Failed("Connect") \/ Failed("KeepAlive")

\* The reply status of section 7's mapping for the failure in the log.
ExpectedFailureStatus ==
    IF HasEvent("Lookup", "empty") THEN "HostUnreachable"
    ELSE IF HasEvent("Connect", "ConnectionRefused") THEN "ConnectionRefused"
    ELSE IF HasEvent("Connect", "ConnectionAborted") THEN "HostUnreachable"
    ELSE "GeneralFailure"

\* C7 as stated: when resolution, connect or keep-alive fails the handler
\* issues exactly one RelayResponse with the error-mapped status bound to the
\* local address, starts no tunnel and returns success.
C7_AsStated ==
    (EstablishFailed /\ pc = "Done") =>
        /\ Count("WriteRelayResponse") = 1
        /\ Events("WriteRelayResponse")[1].what = ExpectedFailureStatus
        /\ Events("WriteRelayResponse")[1].addr = local_addr
        /\ ~TunnelTouched
        /\ result = ResOk

\* C7: when resolution, connect or keep-alive fails the handler issues
\* exactly one RelayResponse with the error-mapped status bound to the local
\* address and starts no tunnel; it returns what the write of that response
\* returned: success when the response was written, the write's error when it
\* was not.
C7_EstablishFailure ==
    EstablishFailed =>
        /\ ~TunnelTouched
        /\ pc \in {"WriteErrReply", "Done", "Cancelled"}
        /\ Count("WriteRelayResponse") <= 1
        /\ pc = "Done" =>
              /\ Count("WriteRelayResponse") = 1
              /\ LET w == Events("WriteRelayResponse")[1]
                 IN /\ w.what = ExpectedFailureStatus
                    /\ w.addr = local_addr
                    /\ result = IF w.ok THEN ResOk ELSE ResErr(WriteErr)
                    /\ toClient = MethodSelectedBytes \o
                           (IF w.ok THEN RelayResponse_bytes(ExpectedFailureStatus, local_addr)
                            ELSE <<>>)

C7_Witness ==
    /\ pc = "Done" /\ Failed("KeepAlive")
    /\ result = ResOk
    /\ HasEvent("WriteRelayResponse", "GeneralFailure")
    /\ outbound = "dropped"

\* The relay request was read to its end and could not be decoded (the read
\* did not fail for lack of bytes).
RelayRequestUndecodable ==
    \E i \in 1..Len(log) :
        /\ log[i].ev = "ReadRelayRequest" /\ ~log[i].ok
        /\ log[i].what # "UnexpectedEof"

\* C8: an error after the handshake, an undecodable relay request included,
\* is answered with a single RelayResponse and is not propagated: the handler
\* returns success.
C8_UndecodableRequestAnswered ==
    (RelayRequestUndecodable /\ pc = "Done") =>
        /\ Count("WriteRelayResponse") = 1
        /\ result.st = "Ok"

\* C9: a domain name that does not resolve (the lookup fails or yields no
\* address) gets exactly one RelayResponse with HostUnreachable, and no TCP
\* connect is attempted.
C9_UnresolvedIsHostUnreachable ==
    (Failed("Lookup") /\ pc = "Done") =>
        /\ Count("WriteRelayResponse") = 1
        /\ Events("WriteRelayResponse")[1].what = "HostUnreachable"
        /\ Count("Connect") = 0

(***************************************************************************)
(* Properties of the server (SpecServer).                                  *)
(***************************************************************************)
RunReturned == runPc \in {"Returned", "BindFailed"}

\* C10: the shutdown closes the task tracker and cancels the token before
\* run() waits, and run() returns only after every task spawned on the
\* tracker has finished: in a state where run() has returned no tracked task
\* is running; before the shutdown signal the tracker is open and the token
\* is not cancelled.
C10_RunReturnsAfterTasks ==
    /\ RunReturned => \A c \in Conns : tasks[c] # "Running"
    /\ runPc \in {"Wait", "Returned"} <=> (trackerClosed /\ tokenCancelled)
    /\ runPc \notin {"Wait", "Returned"} => (~trackerClosed /\ ~tokenCancelled)
    /\ \A c \in Conns : tasks[c] = "Cancelled" => tokenCancelled

C10_Witness ==
    /\ runPc = "Returned"
    /\ \E c \in Conns : tasks[c] = "Cancelled"
    /\ \E c \in Conns : tasks[c] = "Ok"

\* C11: once the shutdown signal was taken, run() eventually returns: every
\* task still running takes the arm of the cancelled token, whatever its
\* client, its endpoint and its handler do or fail to do.
C11_ShutdownTerminates == (runPc = "Wait") ~> (runPc = "Returned")

C11_Witness ==
    /\ runPc = "Returned"
    /\ \A c \in Conns : tasks[c] = "Cancelled"

C13_NoSpawnAfterClose ==
    [][(trackerClosed \/ trackerClosed') =>
          /\ accepted' = accepted
          /\ labels' = labels
          /\ handlers' = handlers
          /\ spawned' = spawned
          /\ \A c \in Conns : tasks[c] # "Running" => tasks'[c] # "Running"]_vars

C13_Witness ==
    /\ trackerClosed /\ runPc = "Returned"
    /\ accepted = 1 /\ spawned[1] = 1

\* C14: a handler that ends with an error changes the state of its own task
\* and nothing else: run() stays where it is, the tracker and the token are
\* untouched, every other connection's task, handler and spawned work are as
\* they were.  run() leaves its loop only on the shutdown signal and fails
\* only when the listener cannot be bound, before any connection.
C14_Confined ==
    [][\A c \in Conns : (tasks[c] = "Running" /\ tasks'[c] = "Err") =>
          /\ runPc' = runPc
          /\ trackerClosed' = trackerClosed /\ tokenCancelled' = tokenCancelled
          /\ accepted' = accepted /\ labels' = labels /\ handlers' = handlers
          /\ detached' = detached
          /\ \A d \in Conns \ {c} : tasks'[d] = tasks[d]]_vars

C14_LoopKeepsRunning ==
    /\ runPc \in {"Bind", "BindFailed", "Select", "Peek", "Sleep", "Wait", "Returned"}
    /\ runPc = "BindFailed" => accepted = 0
    /\ runPc \in {"Wait", "Returned"} => trackerClosed

C14_FailureIsolated == [] C14_LoopKeepsRunning /\ C14_Confined

C14_Witness ==
    /\ tasks[1] = "Err" /\ tasks[2] = "Running"
    /\ runPc = "Select" /\ ~trackerClosed

\* C15: a connection labelled Unknown gets no handler and no task: nothing
\* is created, spawned or started for it (the handlers alone write to clients
\* and open outbound sockets), and the step that drops it leaves run() in its
\* loop, ready for the next accept.
C15_UnknownHasNoHandler ==
    \A c \in Conns : labels[c] = "Unknown" =>
        /\ handlers[c] = "None"
        /\ tasks[c] = "None"
        /\ spawned[c] = 0
        /\ detached[c] = "None"

C15_UnknownDropped ==
    /\ [] C15_UnknownHasNoHandler
    /\ [][\A c \in Conns : (labels[c] # "Unknown" /\ labels'[c] = "Unknown") =>
             (runPc' = "Select" /\ tasks' = tasks /\ ~trackerClosed')]_vars

C15_Witness ==
    /\ labels[1] = "Unknown" /\ tasks[1] = "None"
    /\ labels[2] = "Socks5" /\ tasks[2] = "Running"

\* The error of the last accept() is not a transient one: it is anything
\* but an I/O error that is_transient_error accepts.
AcceptErrNonTransient ==
    acceptErr # NoAcceptErr /\ ~(acceptErr.type = "io" /\ acceptErr.transient)

\* C19: after an accept failure that is not transient, a failure raised
\* while peeking the first byte included, the loop is in its back-off delay
\* before the next accept attempt; after a transient one it is not.
C19_BackoffAfterNonTransient ==
    /\ AcceptErrNonTransient => runPc = "Sleep"
    /\ (acceptErr.type = "io" /\ acceptErr.transient) => runPc # "Sleep"

\* The handler section 4.8 gives each known label.
HandlerOfLabel(label) ==
    CASE label = "Socks5" -> "LurkSocks5Handler"
      [] label \in {"Http", "HttpSecure"} -> "LurkHttpHandler"
      [] OTHER -> "None"

\* C20: every accepted connection with a known label has exactly one task
\* spawned for it, running the handler of its label; no connection has two
\* tasks, and only a connection with the HTTP handler has HTTP work started
\* for it.
C20_OneTaskPerConnection ==
    \A c \in Conns :
        /\ spawned[c] <= 1
        /\ labels[c] \in {"Socks5", "Http", "HttpSecure"} =>
              /\ spawned[c] = 1
              /\ tasks[c] # "None"
              /\ handlers[c] = HandlerOfLabel(labels[c])
        /\ detached[c] # "None" => labels[c] \in {"Http", "HttpSecure"}
        /\ tasks[c] # "None" => (spawned[c] = 1 /\ c <= accepted)

C20_Witness ==
    /\ labels[1] = "Http" /\ tasks[1] = "Running" /\ detached[1] = "Tunnel"
    /\ labels[2] = "Socks5" /\ tasks[2] = "Running"

(***************************************************************************)
(* Properties of the listener (SpecListener).                              *)
(***************************************************************************)
\* The handler task of the stream has been spawned and has read nothing yet.
HandlerAtFirstRead == pc = "ReadHandshake" /\ log = <<>>

C16_PeekStep ==
    (acceptPc = "Peek" /\ acceptPc' = "Returned") => inbound' = inbound

C16_FirstByteStillThere ==
    /\ (acceptRes = ResOk /\ (pc = "NotStarted" \/ HandlerAtFirstRead)) =>
          (inbound # <<>> /\ inbound[1] = peeked.byte)
    /\ HandlerAtFirstRead => inbound[1] = SOCKS5_VERSION
    /\ ~HasEvent("ReadHandshakeRequest", "ProtocolVersion")

\* C16: the peek that classifies a connection consumes nothing: the stream
\* is the same after accept() as before it, the first byte the handler reads
\* is the peeked byte, and the SOCKS5 decoder therefore reads the version
\* byte 0x05 itself and never fails on the protocol version.
C16_PeekConsumesNothing == [] C16_FirstByteStillThere /\ [][C16_PeekStep]_vars

C16_Witness ==
    /\ acceptRes = ResOk /\ peeked = [n |-> 1, byte |-> SOCKS5_VERSION]
    /\ pc = "ReadRelay" /\ toClient = MethodSelectedBytes

\* The first bytes of the HTTP methods, in upper and lower case:
\* G g H h P p D d C c O o T t.
HttpFirstBytes == {71, 103, 72, 104, 80, 112, 68, 100, 67, 99, 79, 111, 84, 116}

ExpectedLabelKind(b) ==
    IF b = SOCKS5_VERSION THEN "SOCKS5"
    ELSE IF b \in HttpFirstBytes THEN "Http"
    ELSE "Unknown"

\* C17: the label of an accepted connection is a total function of its
\* first byte: 0x05 gives Socks5, each of G g H h P p D d C c O o T t gives
\* Http, and every other byte b gives Unknown(b).
C17_ClassificationByFirstByte ==
    (acceptPc # "Peek" /\ acceptRes = ResOk) =>
        /\ connLabel.kind = ExpectedLabelKind(peeked.byte)
        /\ connLabel.kind = "Unknown" => connLabel.byte = peeked.byte

\* The client closed the connection without having sent a byte.
ClosedBeforeAnyByte == clientEof /\ clientPc = 0 /\ inbound = <<>>

C18_EofState ==
    /\ (acceptPc # "Peek" /\ ClosedBeforeAnyByte) => acceptRes \in {ResErr(e) : e \in PeekErrors}
    /\ (acceptPc # "Peek" /\ peeked.n = 0 /\ acceptRes \notin {ResErr(e) : e \in PeekErrors \ {PeekEof}}) =>
          acceptRes = ResErr(PeekEof)
    /\ acceptRes = ResErr(PeekEof) =>
          /\ connLabel = NoLabel
          /\ pc = "NotStarted" /\ log = <<>>
          /\ tasks[1] = "None" /\ handlers[1] = "None" /\ spawned[1] = 0
          /\ outbound = "none" /\ toClient = <<>>
          /\ acceptPc = "Handled" => runPc = "Select" /\ ~trackerClosed

\* C18: when the client closes before a byte could be peeked, accept()
\* fails with UnexpectedEof: no connection object is made, no handler runs,
\* no task is spawned, no outbound socket is opened, nothing is written, and
\* the loop goes on to the next accept.
C18_EofBeforeFirstByte == C18_EofState

C18_Witness ==
    /\ ClosedBeforeAnyByte /\ acceptRes = ResErr(PeekEof)
    /\ acceptPc = "Handled" /\ runPc = "Select"

TunnelReturned == Count("TunnelClosed") > 0

\* C22 as stated: run() completes only after both directions have finished.
C22_AsStated == TunnelReturned => (l2r = "Done" /\ r2l = "Done")

C22_HalfClose ==
    /\ l2r \in {"ShuttingDown", "Done"} => (clientEof /\ inbound = <<>>)
    /\ r2l \in {"ShuttingDown", "Done"} => (endpointEof /\ fromEndpoint = <<>>)
    /\ endpointWrShut <=> l2r = "Done"
    /\ clientWrShut <=> r2l = "Done"
    /\ HasEvent("TunnelClosed", "ok") =>
          (l2r = "Done" /\ r2l = "Done" /\ endpointWrShut /\ clientWrShut)

C22_OtherDirectionGoesOn ==
    /\ (endpointWrShut' /\ ~endpointWrShut) => (r2l' = r2l /\ pc' = "Tunnel")
    /\ (clientWrShut' /\ ~clientWrShut) => (l2r' = l2r /\ pc' = "Tunnel")

C22_Completes ==
    (pc = "Tunnel" /\ clientEof /\ endpointEof) ~> (pc \in {"Done", "Cancelled"})

\* C22 (amended): when a read returns end-of-stream the writing side of the
\* other stream is shut down, and only then, while the opposite direction
\* keeps its state and run() goes on; run() returns Ok only after both
\* directions have finished and both writing sides are shut down; once both
\* peers have reached end-of-stream run() returns, unless its task is
\* cancelled first.  An I/O error of either direction ends run() at once
\* with that error, the other direction being abandoned.
C22_TunnelHalfCloseAndCompletion ==
    /\ [] C22_HalfClose
    /\ [][C22_OtherDirectionGoesOn]_vars
    /\ C22_Completes

C22_Witness ==
    /\ pc = "Done" /\ HasEvent("TunnelClosed", "ok")
    /\ l2r = "Done" /\ r2l = "Done" /\ endpointWrShut /\ clientWrShut
    /\ Count("CopyL2R") > 0 /\ Count("CopyR2L") > 0

(***************************************************************************)
(* Properties of the authenticator and the codec (SpecCodec).              *)
(***************************************************************************)
\* C23: select_auth_method returns a member of the intersection of the
\* server's set {None} and the client's set, and no method exactly when the
\* intersection is empty; selecting again on the same client set gives the
\* same result (None if and only if the client offered None).
C23_SelectionInIntersection ==
    call.fn = "select_auth_method" =>
        LET common == {"None"} \cap call.arg.methods
            m == call.res.method
        IN /\ (m = "NoMethod") <=> (common = {})
           /\ m # "NoMethod" => m \in common
           /\ (m = "None") <=> ("None" \in call.arg.methods)
           /\ call.runs > 1 => call.res = call.prev

C23_Witness ==
    /\ call.fn = "select_auth_method" /\ call.runs = MaxRuns
    /\ call.arg.methods = AuthMethods /\ call.res.method = "None"
    /\ call.prev.method = "None"

\* The method byte and the reply code of RFC 1928.
WireMethod(m) ==
    CASE m = "None" -> 0 [] m = "GssAPI" -> 1 [] m = "Password" -> 2 [] m = "NoMethod" -> 255

WireReply(st) ==
    CASE st = "Succeeded" -> 0 [] st = "GeneralFailure" -> 1
      [] st = "ConnectionNotAllowed" -> 2 [] st = "NetworkUnreachable" -> 3
      [] st = "HostUnreachable" -> 4 [] st = "ConnectionRefused" -> 5
      [] st = "TtlExpired" -> 6 [] st = "CommandNotSupported" -> 7
      [] st = "AddressTypeNotSupported" -> 8

\* C24: a HandshakeResponse is written as the two bytes 05 M, M the
\* selected method's byte or FF when none was selected; a RelayResponse is
\* written as 05 REP 00 ATYP ADDR PORT, REP the status byte and PORT
\* big-endian (Succeeded bound to 127.0.0.1:11 is 05 00 00 01 7F 00 00 01
\* 00 0B).
C24_ReplyEncoding ==
    /\ call.fn = "HandshakeResponse::write_to" =>
          /\ call.res.st = "ok"
          /\ call.res.bytes = <<5, WireMethod(call.arg.method)>>
    /\ call.fn = "RelayResponse::write_to" =>
          /\ call.res.st = "ok"
          /\ call.res.bytes = <<5, WireReply(call.arg.status), 0, 1>> \o call.arg.addr.host
                              \o <<call.arg.addr.port \div 256, call.arg.addr.port % 256>>
          /\ (call.arg.status = "Succeeded" /\ call.arg.addr = SocketV4(<<127, 0, 0, 1>>, 11)) =>
                call.res.bytes = <<5, 0, 0, 1, 127, 0, 0, 1, 0, 11>>

C24_Witness ==
    /\ call.fn = "RelayResponse::write_to" /\ call.arg.status = "Succeeded"
    /\ call.arg.addr = SocketV4(<<127, 0, 0, 1>>, 11)
    /\ call.res.bytes = <<5, 0, 0, 1, 127, 0, 0, 1, 0, 11>>

\* The method bytes of a VER NMETHODS METHODS sequence.
OfferedBytes(b) == {b[i] : i \in 3..Len(b)}

WireCommand(b) == CASE b = 1 -> "Connect" [] b = 2 -> "Bind" [] b = 3 -> "UdpAssociate"

\* The address ATYP ADDR PORT stands for, and whether its bytes are of the
\* form the type requires (a domain name is UTF-8).
WireAddress(a) ==
    CASE a[1] = 1 -> SocketV4(SubSeq(a, 2, 5), a[6] * 256 + a[7])
      [] a[1] = 4 -> SocketV6(SubSeq(a, 2, 17), a[18] * 256 + a[19])
      [] a[1] = 3 -> DomainName(SubSeq(a, 3, 2 + a[2]), a[3 + a[2]] * 256 + a[4 + a[2]])

WireAddressWellFormed(a) == a[1] = 3 => \A i \in 3..(2 + a[2]) : a[i] < 128

\* C26: decoding a relay request fails with ProtocolVersion when VER is not
\* 0x05, with ReservedValue when RSV is not 0x00, with SocksCommand when CMD
\* is not 1, 2 or 3, with AddressType when ATYP is not 1, 3 or 4; otherwise
\* it yields the command and the endpoint address, the port read big-endian
\* (05 01 00 01 7F 00 00 01 0A 0A is Connect to 127.0.0.1:2570).
C26_RelayRequestDecoding ==
    call.fn = "RelayRequest::read_from" =>
        LET b == call.arg.bytes
            a == Drop(b, 3)
            r == call.res
        IN IF b[1] # 5 THEN r.st = "err" /\ r.err.kind = "ProtocolVersion"
           ELSE IF b[3] # 0 THEN r.st = "err" /\ r.err.kind = "ReservedValue"
           ELSE IF b[2] \notin {1, 2, 3} THEN r.st = "err" /\ r.err.kind = "DataError:SocksCommand"
           ELSE IF a[1] \notin {1, 3, 4} THEN r.st = "err" /\ r.err.kind = "DataError:AddressType"
           ELSE WireAddressWellFormed(a) =>
                  /\ r.st = "ok"
                  /\ r.command = WireCommand(b[2])
                  /\ r.addr = WireAddress(a)

\* C27: for every Address a of the three variants, Address::read_from on the
\* bytes a.write_to produced returns a.
C27_AddressRoundTrip ==
    call.fn = "Address::write_to/read_from" =>
        (call.res.st = "ok" /\ call.res.addr = call.arg.addr)

\* The mapping of C28 as the claim lists it.
StatedStatus(err) ==
    CASE err = LurkErr("Unsupported:Socks5Command") -> "CommandNotSupported"
      [] err = LurkErr("Unsupported:IPv6Address") -> "AddressTypeNotSupported"
      [] err = LurkErr("UnresolvedDomainName") -> "HostUnreachable"
      [] err = IoErr("ConnectionRefused") -> "ConnectionRefused"
      [] err = IoErr("ConnectionAborted") -> "HostUnreachable"
      [] OTHER -> "GeneralFailure"

\* C28 as stated: every error the claim does not list maps to
\* GeneralFailure.
C28_AsStated ==
    call.fn = "ReplyStatus::from" => call.res.status = StatedStatus(call.arg.err)

\* C28 (amended): the mapping from handler errors to ReplyStatus is total
\* and never yields Succeeded: an unsupported command maps to
\* CommandNotSupported, an unsupported address type to
\* AddressTypeNotSupported, an unresolved domain name to HostUnreachable,
\* no acceptable authentication method to ConnectionNotAllowed, an I/O
\* ConnectionRefused to ConnectionRefused, an I/O ConnectionAborted to
\* HostUnreachable, and every other error to GeneralFailure.
C28_ErrorToReplyStatus ==
    call.fn = "ReplyStatus::from" =>
        /\ call.res.status \in ReplyStatuses \ {"Succeeded"}
        /\ call.res.status =
              IF call.arg.err = LurkErr("NoAcceptableAuthMethod") THEN "ConnectionNotAllowed"
              ELSE StatedStatus(call.arg.err)

C28_Witness ==
    /\ call.fn = "ReplyStatus::from" /\ call.arg.err = IoErr("ConnectionAborted")
    /\ call.res.status = "HostUnreachable"

(***************************************************************************)
(* Properties of the HTTP handler (SpecHttp).                              *)
(***************************************************************************)
\* serve_request is over for a CONNECT request whose target was extracted.
ConnectServed ==
    /\ http.pc \in {"Responded", "Failed"}
    /\ http.request.method = "CONNECT"
    /\ http.target.some
\* No outbound connection was established: 500 and no tunnel; one was: 200,
\* and a tunnel only on the upgraded connection.
ConnectOutcome ==
    IF http.outbound = "None"
    THEN http.response = server_error /\ http.tunnel = "None" /\ http.copied = 0
    ELSE /\ http.response = ok
         /\ (http.tunnel # "None" \/ http.copied > 0) => http.upgrade = "Upgraded"
\* The part of C29 about a target that did resolve.
C29_OnceResolved == (ConnectServed /\ http.remote_addr # NoAddress) => ConnectOutcome

\* C29: for a CONNECT request whose target address was extracted, if the
\* outbound connection cannot be established (the target does not resolve or
\* the connect fails) the client receives 500 and no tunnel is started;
\* otherwise the client receives 200 and the tunnel copies only after the
\* client side of the connection has been upgraded.
C29_ConnectResponse == ConnectServed => ConnectOutcome

\* An authority the target can be taken from: its port is given or the
\* scheme has a default port, and its brackets hold an IPv6 address.
UsableAuthority(scheme, a) ==
    /\ a.present
    /\ a.host # "badv6"
    /\ a.port \/ scheme \in {"none", "http", "https"}
NothingUsable(req) ==
    /\ ~UsableAuthority(req.scheme, req.authority)
    /\ ~(req.host.state = "ok" /\ UsableAuthority(req.scheme, req.host.authority))

\* C30: if no target address can be extracted from a request (no usable URI
\* authority and no usable Host header), the handler answers 400 Bad Request
\* and opens no outbound connection.
C30_NoTargetBadRequest ==
    (http.pc # "Request" /\ NothingUsable(http.request)) =>
        /\ http.pc = "Responded" /\ http.response = bad_request
        /\ http.dials = 0 /\ http.outbound = "None" /\ http.tunnel = "None"
\* 400 was answered to a request whose authority and whose Host header are
\* both there and both unusable.
C30_Witness ==
    /\ http.pc = "Responded" /\ http.response = bad_request /\ http.dials = 0
    /\ http.request.authority.present /\ http.request.authority.host = "badv6"
    /\ http.request.host.state = "ok" /\ ~http.request.host.authority.port
    /\ http.request.scheme = "ftp"

\* A URI in origin form: path and query only.
OriginForm(uri) == uri.scheme = "none" /\ uri.authority = "None" /\ uri.path
\* send_request has forwarded the request and the origin has answered.
Forwarded ==
    /\ http.request.method # "CONNECT"
    /\ http.pc = "Responded" /\ http.response = "Origin"
\* The part of C31 about a target taken from the authority of a URI that has
\* a path.
C31_FromAuthority ==
    (Forwarded /\ get_host_addr_from_authority(http.request).some /\ http.request.path)
        => OriginForm(http.uri)

\* C31: every non-CONNECT request the handler forwards to the origin carries
\* an origin-form URI (path and query only, no scheme and no authority),
\* whether the target was taken from the URI's authority or from the Host
\* header.
C31_ForwardedOriginForm == Forwarded => OriginForm(http.uri)

(***************************************************************************)
(* Properties of the stats and the health endpoint (SpecStats).            *)
(***************************************************************************)
\* The answer build has made: both fields null or both non-null, non-null
\* exactly when is_server_started() returned true to it, and then the server
\* has stored is_started.
HealthcheckAnswer ==
    stats.build.pc = "Done" =>
        /\ stats.build.uptime_secs.some = stats.build.started_utc_ts.some
        /\ stats.build.started_utc_ts.some = stats.build.started
        /\ stats.build.started => stats.is_started
\* The assertions "server should be already started" of the getters hold.
GettersAssertionsHold == stats.build.panic # "NotStarted"
\* What is_server_started() returns never goes back to false.
StartedStaysStarted ==
    [][ /\ stats.seen_is_started => stats.seen_is_started'
        /\ stats.is_started => stats.is_started' ]_vars

\* C32: the /healthcheck answer reports uptime_secs and started_utc_ts both
\* null exactly while is_server_started is false and both non-null at every
\* later time, never one null and the other non-null, and building it never
\* trips the "server should be already started" assertions of the getters.
C32_HealthcheckAnswer ==
    [](HealthcheckAnswer /\ GettersAssertionsHold) /\ StartedStaysStarted
\* An answer with both fields non-null has been built after an answer with
\* both null.
C32_Witness ==
    /\ stats.build.pc = "Done" /\ stats.runs = 2
    /\ stats.build.uptime_secs.some /\ stats.build.started_utc_ts.some

\* C37: a reader that observes is_server_started() = true obtains from
\* get_started_utc_timestamp() the timestamp recorded by on_server_started(),
\* never the initial value 0, under every interleaving of the endpoint's
\* reads with the server's start.
C37_StartedTimestampRead ==
    (stats.build.started /\ stats.build.started_utc_ts.some) =>
        /\ stats.build.started_utc_ts.val # 0
        /\ stats.build.started_utc_ts.val = stats.current_time

\* run() has returned the error of bind: nothing was started, accepted or
\* spawned, and main ends with the error.
BindFailedLeavesNothing ==
    runPc = "BindFailed" =>
        /\ ~started /\ accepted = 0
        /\ \A c \in Conns : tasks[c] = "None" /\ spawned[c] = 0 /\ detached[c] = "None"
        /\ ~trackerClosed /\ ~tokenCancelled
        /\ main(runPc) = "Err"

\* C33: if binding the listener fails, run() returns the error without
\* recording the server as started, without accepting any connection and
\* without spawning any task; the stats stay in their initial state and the
\* process ends with a failure result.  No step follows the failed bind.
C33_BindFailure == []BindFailedLeavesNothing /\ [][runPc # "BindFailed"]_vars
C33_Witness == runPc = "BindFailed" /\ main(runPc) = "Err"

\* The tasks the tracker counts as live, the tasks spawned on it so far, and
\* those of them that have completed.
TrackerLive == Cardinality({c \in Conns : tasks[c] = "Running"})
SpawnedSoFar == Cardinality(UNION {{<<c, k>> : k \in 1..spawned[c]} : c \in Conns})
Completed == Cardinality({c \in Conns : tasks[c] \in {"Ok", "Err", "Cancelled"}})

SilentClientHeld == runPc = "Peek" /\ ~trackerClosed

\* C36: a client that has connected but has not yet sent its first byte does
\* not delay the proxy: while it stays silent, a connection that arrives
\* later can still be accepted (and then classified and dispatched).
C36_SilentClientNoDelay ==
    (SilentClientHeld /\ accepted < MaxConns) => ENABLED listener_incoming

(***************************************************************************)
(* Properties of the outbound streams (Spec, SpecHttp).                    *)
(***************************************************************************)
\* The part of C34 about SOCKS5 Connect: the keep-alive of 5 min, 1 min and
\* 5 retries is applied at most once, right after the connect that
\* succeeded, and the Succeeded reply and every byte for the endpoint come
\* after it.
C34_Socks5Connect ==
    /\ Count("KeepAlive") <= 1
    /\ \A i \in 1..Len(log) :
         /\ log[i].ev = "KeepAlive" =>
              i > 1 /\ log[i-1].ev = "Connect" /\ log[i-1].ok /\ log[i].what = "300/60/5"
         /\ (log[i].ev = "Connect" /\ log[i].ok) =>
              i < Len(log) /\ log[i+1].ev = "KeepAlive"
    /\ (toEndpoint # <<>> \/ pc = "Tunnel") =>
         \E i \in 1..Len(log) : log[i].ev = "KeepAlive" /\ log[i].ok

\* C34: every outbound TCP stream the proxy opens on behalf of a client (for
\* SOCKS5 Connect, for HTTP CONNECT and for HTTP forwarded requests) has the
\* keep-alive options applied exactly once, after the connect succeeds and
\* before the proxy writes to the stream or reports success to the client.
\* Here: a stream the HTTP handler has opened has them applied once.
C34_KeepAliveApplied == http.outbound # "None" => http.keepalive = 1

(***************************************************************************)
(* Further properties of the SOCKS5 handler (Spec).                        *)
(***************************************************************************)
\* The decoding of the handshake request has failed.
HandshakeUndecodable == Failed("ReadHandshakeRequest")

TunnelEndKeepsResult ==
    Count("TunnelClosed") > 0 =>
        /\ pc = "Done" /\ result = ResOk
        /\ Count("TunnelClosed") = 1 /\ log[Len(log)].ev = "TunnelClosed"
        /\ Count("WriteRelayResponse") = 1
        /\ Events("WriteRelayResponse")[1].what = "Succeeded"
        /\ Events("WriteRelayResponse")[1].ok
\* Once the tunnel has ended the handler does nothing more and the inbound
\* stream gets no byte.
NothingAfterTunnelEnd ==
    [][Count("TunnelClosed") > 0 => (log' = log /\ toClient' = toClient /\ result' = result)]_vars

\* C39: once the Succeeded reply has been written, the outcome of the tunnel
\* does not change the handler's result: a tunnel I/O error is only logged,
\* the handler still returns success, and no RelayResponse or other byte is
\* written to the inbound stream by the handler after the tunnel ends.
C39_TunnelOutcomeIgnored == []TunnelEndKeepsResult /\ NothingAfterTunnelEnd
C39_Witness ==
    /\ HasEvent("TunnelClosed", "error") /\ pc = "Done" /\ result = ResOk
    /\ Count("WriteRelayResponse") = 1
====
